---- MODULE Spec2Model ----
(***************************************************************************)
(* Model of the ingestion job scheduler of doxie (src/server/processor.ts) *)
(* and of the job store operations it relies on (src/server/database.ts).  *)
(*                                                                         *)
(* One scheduler process (Processor.process) polls the job collection,     *)
(* claims the oldest waiting job, runs the ingestion pipeline for the      *)
(* job's source (extract, delete previous vectors, batch upsert) and       *)
(* records the outcome.  External actors create, cancel and delete jobs    *)
(* through the Database class while the scheduler runs.                    *)
(***************************************************************************)
EXTENDS Integers, Sequences, FiniteSets, TLC

\* ------------------------------------------------------------------------
\* Bounds of the model
\* ------------------------------------------------------------------------
MaxJobs == 2          \* job documents ever inserted into the collection
InitJobs == 2         \* job documents already present at process start
MaxCreatedAt == 2     \* distinct createdAt stamps handed out by creators
MaxFetchUrls == 3     \* urls fetched side by side by one Promise.all
MaxLocs == 56         \* <loc> elements of the largest sitemap
MaxLines == 4         \* lines of a markdown document
MaxFaqs == 3          \* entries of a FAQ source
MaxLogBatches == 2    \* passes of the upsert loop of one job
MaxPages == 3         \* full pages of the largest collection to delete
MaxForeign == 1       \* records of another source at each of two places
MaxEntries == 2       \* entries of a markdown archive
MaxDiscussions == 2   \* discussions of a Flarum dump
MaxPosts == 2         \* posts of a discussion

\* ------------------------------------------------------------------------
\* Program constants
\* ------------------------------------------------------------------------
batchSize == 2000     \* processor.ts:521
limit == 500          \* processor.ts:443
defaultTries == 5     \* processor.ts:114
sitemapBatch == 25    \* processor.ts:362
progressEvery == 100  \* processor.ts:211

VARIABLES
    jobs,            \* the jobs collection: _id -> job document
    nextId,          \* next fresh ObjectId
    source,          \* the source document fetched for the claimed job
    vstore,          \* the vector collection of the source, in storage order
    pc,              \* position of Processor.process / startup
    job,             \* the claimed job object held by the scheduler
    docs,            \* documents returned by the extractor
    ids, embeddings, metadatas, vectorDocs,   \* the four upsert arrays
    numProcessed, total,
    e,               \* the error caught by the per-job handler
    consoleError,    \* console.error output of the current pass of the loop
    upsertCall,      \* arguments of the latest collection.upsert call
    batchSizes,      \* sizes of the upsert calls of the current job
    raised,          \* a pipeline step of the current job raised
    choice,          \* index of the extraction result of the current job
    okRuns,          \* extraction results of the jobs finished with success
    runningAtStart,  \* ids of the jobs persisted as running at process start
    \* fetchWithRetry, one call per url of a Promise.all
    tries,           \* url -> the tries counter of the call
    attempts,        \* url -> outcomes of the fetch attempts made so far
    responses,       \* url -> the call is pending, has returned or has thrown
    \* SitemapProccessor.process
    locs,            \* the <loc> urls of the sitemap, in document order
    included, excluded,   \* source.included, source.excluded
    urls,            \* the urls still to scrape
    kept,            \* the urls array as the filter loop left it
    batches,         \* the batchUrls of the passes of the while loop so far
    probes,          \* number of shouldStop calls made so far
    \* MarkdownZipProccessor.process, the segmentation callback of one document
    docText,         \* doc.text, the lines of the document being segmented
    lines,           \* the lines still to read
    title,           \* the stack of open headings
    currText,        \* the accumulation buffer
    segments,        \* doc.segments
    flushes,         \* the buffers flushed so far, with the stack open then
    \* FaqProccessor.process
    faqs,            \* source.faqs
    \* Processor.log and Processor.updateJobLog
    inflight,        \* updateOne calls issued and not yet applied by the store
    written,         \* the values the persisted log has held, in order
    \* Processor.deleteSourceDocs
    deleteFrom,      \* the collection as the deletion under study found it
    deleteCalls,     \* number of ids of every collection.delete call so far
    \* MarkdownZipProccessor.process, the loop over the entries of the archive
    zipFiles,        \* zip.files in the order of Object.keys
    fileIdx,         \* number of entries the loop is through with
    \* FlarumProccessor.process
    discussions,     \* the discussions of the dump
    staff,           \* source.staff
    discussionIdx,   \* the discussion the outer loop is at
    postIdx,         \* number of posts of it the inner loop is through with
    postId,          \* let postId
    englishPosts,    \* let englishPosts
    nonEnglishPosts, \* let nonEnglishPosts
    processed        \* let processed

schedVars == <<jobs, nextId, source, vstore, pc, job, docs,
               ids, embeddings, metadatas, vectorDocs, numProcessed, total, e, consoleError,
               upsertCall, batchSizes, raised, choice, okRuns, runningAtStart>>
fetchVars == <<tries, attempts, responses>>
sitemapVars == <<locs, included, excluded, urls, kept, batches, probes>>
markdownVars == <<docText, lines, title, currText, segments, flushes>>
faqVars == <<faqs>>
logVars == <<inflight, written>>
deleteVars == <<deleteFrom, deleteCalls>>
archiveVars == <<zipFiles, fileIdx>>
flarumVars == <<discussions, staff, discussionIdx, postIdx, postId,
                englishPosts, nonEnglishPosts, processed>>
extVars == <<fetchVars, sitemapVars, markdownVars, faqVars, logVars, deleteVars, archiveVars, flarumVars>>

vars == <<jobs, nextId, source, vstore, pc, job, docs,
          ids, embeddings, metadatas, vectorDocs, numProcessed, total, e, consoleError,
          upsertCall, batchSizes, raised, choice, okRuns, runningAtStart, extVars>>

pipeVars == <<source, docs, ids, embeddings, metadatas, vectorDocs, numProcessed, total>>
histVars == <<upsertCall, batchSizes, raised, choice, okRuns, runningAtStart>>

\* ------------------------------------------------------------------------
\* Values
\* ------------------------------------------------------------------------
JobStates == {"waiting", "running", "succeeded", "failed", "stopped"}
SourceTypes == {"faq", "flarum", "sitemap", "markdownzip"}
sourceId == "s1"
\* time stamps: a field never written, a stamp written before this process
\* started, and Date.now() read by this process
Unset == "unset"
Earlier == "earlier"
DateNow == "now"
NoJob == [id |-> 0, log |-> <<>>]
NoSource == [id |-> "", type |-> ""]
Dispatched == "-"
NoCall == [ids |-> <<>>, embeddings |-> <<>>, metadatas |-> <<>>, documents |-> <<>>]

Min(a, b) == IF a < b THEN a ELSE b

Range(s) == {s[i] : i \in 1..Len(s)}

\* Array.prototype.flatMap over the per-document arrays: their concatenation
RECURSIVE flatMap(_)
flatMap(rows) == IF rows = <<>> THEN <<>> ELSE Head(rows) \o flatMap(Tail(rows))


\* ------------------------------------------------------------------------
\* Extraction results.  An extractor returns a list of documents, each with
\* its segments; the scheduler only reads uri, title and the segments.
\* ------------------------------------------------------------------------
Doc(uri, ttl, n) ==
    [uri |-> uri, title |-> ttl, text |-> "",
     segments |-> [s \in 1..n |-> [text |-> <<ttl, s>>, tokenCount |-> 1,
                                   embedding |-> <<>>]]]

\* The extraction results the model draws from: no document, small
\* documents, two documents sharing a uri, exactly one full batch, and more
\* than two batches with an empty document in between.
Corpora ==
    << <<>>,
       <<Doc("u1", "A", 2), Doc("u2", "B", 1)>>,
       <<Doc("u1", "A", 1), Doc("u1", "C", 1)>>,
       <<Doc("u1", "A", 2000)>>,
       <<Doc("u1", "A", 2500), Doc("u2", "B", 0), Doc("u3", "C", 2000)>> >>

SmallCorpora == {1, 2, 3}
BulkCorpora == {1, 2, 4, 5}

\* Embedder.embedDocuments: fills the embedding of every segment from its
\* text (the embedder is an external collaborator).
embedDocuments(ds) ==
    [d \in 1..Len(ds) |->
        [ds[d] EXCEPT !.segments =
            [s \in 1..Len(ds[d].segments) |->
                [ds[d].segments[s] EXCEPT !.embedding = <<"vec", ds[d].segments[s].text>>]]]]

\* doc.uri + "|" + index
MakeId(doc, seg, index) == doc.uri \o "|" \o ToString(index)
MakeEmbedding(doc, seg, index) == seg.embedding
MakeMetadata(doc, seg, index) ==
    [sourceId |-> sourceId, docUri |-> doc.uri, docTitle |-> doc.title,
     index |-> index, tokenCount |-> seg.tokenCount]
MakeDocument(doc, seg, index) == seg.text

\* docs.flatMap((doc) => doc.segments.map((seg, index) => ..)), once per array
idsOf(ds) ==
    flatMap([d \in 1..Len(ds) |->
        [s \in 1..Len(ds[d].segments) |-> MakeId(ds[d], ds[d].segments[s], s - 1)]])
embeddingsOf(ds) ==
    flatMap([d \in 1..Len(ds) |->
        [s \in 1..Len(ds[d].segments) |-> MakeEmbedding(ds[d], ds[d].segments[s], s - 1)]])
metadatasOf(ds) ==
    flatMap([d \in 1..Len(ds) |->
        [s \in 1..Len(ds[d].segments) |-> MakeMetadata(ds[d], ds[d].segments[s], s - 1)]])
vectorDocsOf(ds) ==
    flatMap([d \in 1..Len(ds) |->
        [s \in 1..Len(ds[d].segments) |-> MakeDocument(ds[d], ds[d].segments[s], s - 1)]])

\* array.splice(0, n): the removed head and what stays in the array
spliceHead(a, n) == SubSeq(a, 1, Min(n, Len(a)))
spliceRest(a, n) == SubSeq(a, Min(n, Len(a)) + 1, Len(a))

\* ------------------------------------------------------------------------
\* The vector collection (chroma), kept in storage order
\* ------------------------------------------------------------------------
\* faulty variant: the where clause names a field no record carries
collectionGet_noMatch(store, sid, lim, offset) ==
    LET m == SelectSeq(store, LAMBDA r : r.metadata.docUri = sid)
    IN [k \in 1..Min(lim, IF Len(m) > offset THEN Len(m) - offset ELSE 0) |-> m[offset + k].id]

\* collection.get({ where: { sourceId }, limit, offset, include: [] }).ids
collectionGet(store, sid, lim, offset) ==
    LET m == SelectSeq(store, LAMBDA r : r.metadata.sourceId = sid)
    IN [k \in 1..Min(lim, IF Len(m) > offset THEN Len(m) - offset ELSE 0) |-> m[offset + k].id]

\* faulty variant: the call empties the collection
collectionDelete_all(store, delIds) ==
    SelectSeq(store, LAMBDA r : FALSE)

\* collection.delete({ ids })
collectionDelete(store, delIds) ==
    LET S == Range(delIds) IN SelectSeq(store, LAMBDA r : r.id \notin S)

\* collection.upsert({ ids, embeddings, metadatas, documents }): a record
\* whose id is stored is replaced in place, a new id is appended; of two
\* entries of the call with the same id the later one is kept.
collectionUpsert(store, c) ==
    LET n == Len(c.ids)
        idSet == Range(c.ids)
        distinct == Cardinality(idSet) = n
        winner(i) == distinct \/ \A k \in (i + 1)..n : c.ids[k] # c.ids[i]
        rec(i) == [id |-> c.ids[i], embedding |-> c.embeddings[i],
                   metadata |-> c.metadatas[i], document |-> c.documents[i]]
        lastIdx(id) == CHOOSE i \in 1..n : c.ids[i] = id /\ winner(i)
        old == {store[k].id : k \in 1..Len(store)}
        updated == [k \in 1..Len(store) |->
                       IF store[k].id \in idSet THEN rec(lastIdx(store[k].id)) ELSE store[k]]
        fresh == SelectSeq([i \in 1..n |-> i], LAMBDA i : winner(i) /\ c.ids[i] \notin old)
    IN updated \o [k \in 1..Len(fresh) |-> rec(fresh[k])]

\* the call is well formed: four arrays of one length
validCall(c) ==
    /\ Len(c.embeddings) = Len(c.ids)
    /\ Len(c.metadatas) = Len(c.ids)
    /\ Len(c.documents) = Len(c.ids)



\* ------------------------------------------------------------------------
\* The jobs collection
\* ------------------------------------------------------------------------
Exists(j) == j \in DOMAIN jobs

JobDoc(st, ca, sa, fa) ==
    [state |-> st, sourceId |-> sourceId, createdAt |-> ca,
     startedAt |-> sa, finishedAt |-> fa, log |-> <<>>]

\* jobs.updateOne({ _id }, { $set: { log } }): no document matches a deleted id
updateJobLog(js, jobId, log) ==
    IF jobId \in DOMAIN js THEN [js EXCEPT ![jobId].log = log] ELSE js

\* faulty variant: a job that is not found counts as running
checkJobStatus_running(js, jobId) ==
    IF jobId \in DOMAIN js THEN js[jobId].state ELSE "running"

\* jobs.findOne({ _id }, { projection: { state: 1 } }); job?.state ?? "stopped"
checkJobStatus(js, jobId) ==
    IF jobId \in DOMAIN js THEN js[jobId].state ELSE "stopped"

\* faulty variant: the two outcomes of the conditional are swapped
finishJob_swapped(js, jobId, success, t) ==
    LET newState == IF success THEN "failed" ELSE "succeeded"
    IN IF jobId \in DOMAIN js
       THEN [js EXCEPT ![jobId].state = newState, ![jobId].finishedAt = t]
       ELSE js

\* jobs.updateOne({ _id }, { $set: { state: newState, finishedAt: Date.now() } })
finishJob(js, jobId, success, t) ==
    LET newState == IF success THEN "succeeded" ELSE "failed"
    IN IF jobId \in DOMAIN js
       THEN [js EXCEPT ![jobId].state = newState, ![jobId].finishedAt = t]
       ELSE js

\* faulty variant: updateOne in place of updateMany, one running job is recovered
recoverRunning_updateOne(js, t) ==
    [j \in DOMAIN js |->
        IF js[j].state = "running" /\ \A k \in DOMAIN js : js[k].state = "running" => j <= k
        THEN [js[j] EXCEPT !.state = "stopped", !.finishedAt = t]
        ELSE js[j]]

\* jobs.updateMany({ state: "running" }, { $set: { state: "stopped", finishedAt } })
recoverRunning(js, t) ==
    [j \in DOMAIN js |->
        IF js[j].state = "running"
        THEN [js[j] EXCEPT !.state = "stopped", !.finishedAt = t]
        ELSE js[j]]

\* faulty variant: the sort option is missing, any waiting job may be picked
oldestWaiting_unsorted(js) == {j \in DOMAIN js : js[j].state = "waiting"}

\* the documents findOneAndUpdate({ state: "waiting" }, .., { sort: { createdAt: 1 } })
\* may pick: a waiting job than which no waiting job was created earlier
oldestWaiting(js) ==
    {j \in DOMAIN js :
        /\ js[j].state = "waiting"
        /\ \A k \in DOMAIN js : js[k].state = "waiting" => js[j].createdAt <= js[k].createdAt}

\* job.log += message + "\n"
appendLog(jb, message) == [jb EXCEPT !.log = Append(@, message)]

\* ------------------------------------------------------------------------
\* Initial state: the persisted collections as a previous process left
\* them, and the new process before its startup code has run.
\* ------------------------------------------------------------------------
\* no extractor of the detailed models and no log write is under way
FetchIdle == tries = <<>> /\ attempts = <<>> /\ responses = <<>>
SitemapIdle ==
    /\ locs = <<>> /\ included = <<>> /\ excluded = <<>>
    /\ urls = <<>> /\ kept = <<>> /\ batches = <<>> /\ probes = 0
MarkdownIdle ==
    /\ docText = <<>> /\ lines = <<>> /\ title = <<>> /\ currText = <<>>
    /\ segments = <<>> /\ flushes = <<>>
FaqIdle == faqs = <<>>
LogIdle == inflight = {} /\ written = <<>>
DeleteIdle == deleteFrom = <<>> /\ deleteCalls = <<>>
ArchiveIdle == zipFiles = <<>> /\ fileIdx = 0
FlarumIdle ==
    /\ discussions = <<>> /\ staff = <<>>
    /\ discussionIdx = 0 /\ postIdx = 0 /\ postId = 0
    /\ englishPosts = 0 /\ nonEnglishPosts = 0 /\ processed = 0

Init ==
    /\ FetchIdle /\ SitemapIdle /\ MarkdownIdle /\ FaqIdle /\ LogIdle /\ DeleteIdle /\ ArchiveIdle /\ FlarumIdle
    /\ \E k \in 0..InitJobs :
         \E st \in [1..k -> JobStates], ca \in [1..k -> 1..MaxCreatedAt] :
            /\ jobs = [j \in 1..k |->
                         JobDoc(st[j], ca[j],
                                IF st[j] = "waiting" THEN Unset ELSE Earlier,
                                IF st[j] \in {"waiting", "running"} THEN Unset ELSE Earlier)]
            /\ nextId = k + 1
            /\ runningAtStart = {j \in 1..k : st[j] = "running"}
    /\ source = NoSource
    /\ vstore = <<>>
    /\ pc = "boot"
    /\ job = NoJob
    /\ docs = <<>>
    /\ ids = <<>> /\ embeddings = <<>> /\ metadatas = <<>> /\ vectorDocs = <<>>
    /\ numProcessed = 0 /\ total = 0
    /\ e = <<>>
    /\ consoleError = ""
    /\ upsertCall = NoCall
    /\ batchSizes = <<>>
    /\ raised = FALSE
    /\ choice = 0
    /\ okRuns = <<>>

\* ------------------------------------------------------------------------
\* External actors (management surface), through the Database class
\* ------------------------------------------------------------------------
\* Database.setJob, insert branch: a new job document in state waiting
CreateJob ==
    /\ nextId <= MaxJobs
    /\ \E ca \in 1..MaxCreatedAt :
         jobs' = [j \in DOMAIN jobs \cup {nextId} |->
                     IF j = nextId THEN JobDoc("waiting", ca, Unset, Unset) ELSE jobs[j]]
    /\ nextId' = nextId + 1
    /\ UNCHANGED <<vstore, pc, job, e, consoleError>>
    /\ UNCHANGED pipeVars /\ UNCHANGED histVars
    /\ UNCHANGED extVars

\* Database.setJob, update branch: job cancellation sets a running job to stopped
CancelJob ==
    /\ \E j \in DOMAIN jobs :
         /\ jobs[j].state = "running"
         /\ jobs' = [jobs EXCEPT ![j].state = "stopped"]
    /\ UNCHANGED <<nextId, vstore, pc, job, e, consoleError>>
    /\ UNCHANGED pipeVars /\ UNCHANGED histVars
    /\ UNCHANGED extVars

\* Database.deleteJob
DeleteJob ==
    /\ \E j \in DOMAIN jobs :
         jobs' = [k \in DOMAIN jobs \ {j} |-> jobs[k]]
    /\ UNCHANGED <<nextId, vstore, pc, job, e, consoleError>>
    /\ UNCHANGED pipeVars /\ UNCHANGED histVars
    /\ UNCHANGED extVars


\* ------------------------------------------------------------------------
\* Process start (processor.ts:576-587)
\* ------------------------------------------------------------------------
\* the state after one iteration of the loop: the locals are out of scope
EndIteration ==
    /\ pc' = "sleep"
    /\ job' = NoJob
    /\ source' = NoSource
    /\ docs' = <<>>
    /\ ids' = <<>> /\ embeddings' = <<>> /\ metadatas' = <<>> /\ vectorDocs' = <<>>
    /\ numProcessed' = 0 /\ total' = 0
    /\ e' = <<>>
    /\ upsertCall' = NoCall
    /\ batchSizes' = <<>>
    /\ raised' = FALSE
    /\ choice' = 0

\* crash recovery, then processor.process() is started
startup ==
    /\ pc = "boot"
    /\ jobs' = recoverRunning(jobs, DateNow)
    /\ pc' = "claim"
    /\ UNCHANGED <<nextId, vstore, job, e, consoleError>>
    /\ UNCHANGED pipeVars /\ UNCHANGED histVars
    /\ UNCHANGED extVars

\* the updateMany of the recovery rejects: the loop is never started
startupRejected ==
    /\ pc = "boot"
    /\ pc' = "exited"
    /\ UNCHANGED <<jobs, nextId, vstore, job, e, consoleError>>
    /\ UNCHANGED pipeVars /\ UNCHANGED histVars
    /\ UNCHANGED extVars

\* ------------------------------------------------------------------------
\* Processor.process: one action per await of the loop body
\* ------------------------------------------------------------------------
\* getNextJob finds a waiting job: it is running and returned as updated
getNextJob ==
    /\ pc = "claim"
    /\ \E j \in oldestWaiting(jobs) :
         /\ jobs' = [jobs EXCEPT ![j].state = "running", ![j].startedAt = DateNow]
         /\ job' = [id |-> j, log |-> jobs[j].log]
    /\ pc' = "getSource"
    /\ UNCHANGED <<nextId, vstore, e, consoleError>>
    /\ UNCHANGED pipeVars /\ UNCHANGED histVars
    /\ UNCHANGED extVars

\* getNextJob finds no waiting job: if (job) is skipped
getNextJobNone ==
    /\ pc = "claim"
    /\ \A j \in DOMAIN jobs : jobs[j].state # "waiting"
    /\ pc' = "sleep"
    /\ UNCHANGED <<jobs, nextId, vstore, job, e, consoleError>>
    /\ UNCHANGED pipeVars /\ UNCHANGED histVars
    /\ UNCHANGED extVars

\* getNextJob rejects: the outer catch logs "Error fetching next job"
getNextJobRejected ==
    /\ pc = "claim"
    /\ consoleError' = "Error fetching next job"
    /\ pc' = "sleep"
    /\ UNCHANGED <<jobs, nextId, vstore, job, e>>
    /\ UNCHANGED pipeVars /\ UNCHANGED histVars
    /\ UNCHANGED extVars

\* faulty variant: the raise is swallowed and the run goes on to the collection
Raise_swallowed(what) ==
    /\ e' = <<"Error", what>>
    /\ consoleError' = consoleError
    /\ raised' = TRUE
    /\ pc' = "getCollection"

\* a step inside the per-job try block raises
Raise(what) ==
    /\ e' = <<"Error", what>>
    /\ consoleError' = consoleError
    /\ raised' = TRUE
    /\ pc' = "catch"

\* database.getSource(job.sourceId)
getSource ==
    /\ pc = "getSource"
    /\ \E t \in SourceTypes : source' = [id |-> sourceId, type |-> t]
    /\ pc' = "extract"
    /\ UNCHANGED <<jobs, nextId, vstore, job, e, consoleError>>
    /\ UNCHANGED <<docs, ids, embeddings, metadatas, vectorDocs, numProcessed, total>>
    /\ UNCHANGED histVars
    /\ UNCHANGED extVars

getSourceRaises ==
    /\ pc = "getSource"
    /\ Raise("getSource")
    /\ UNCHANGED <<jobs, nextId, vstore, job>>
    /\ UNCHANGED pipeVars
    /\ UNCHANGED <<upsertCall, batchSizes, choice, okRuns, runningAtStart>>
    /\ UNCHANGED extVars

\* switch (source.type): new XProccessor(this, source, logger,
\* shouldStop).process().  The extractor logs its progress and returns its
\* documents, embedded; the sitemap extractor calls shouldStop after each
\* batch of pages.  source.type is not read again after the switch, and the
\* model forgets it there.
extractFrom(menu) ==
    /\ pc = "extract"
    /\ \E c \in menu :
         /\ choice' = c
         /\ IF source.type = "sitemap" /\ Len(Corpora[c]) > 0
            THEN pc' = "probe" /\ docs' = <<>>
            ELSE pc' = "getCollection" /\ docs' = embedDocuments(Corpora[c])
    /\ job' = appendLog(job, <<"Extracting">>)
    /\ jobs' = updateJobLog(jobs, job.id, job'.log)
    /\ source' = [source EXCEPT !.type = Dispatched]
    /\ UNCHANGED <<nextId, vstore, e, consoleError>>
    /\ UNCHANGED <<ids, embeddings, metadatas, vectorDocs, numProcessed, total>>
    /\ UNCHANGED <<upsertCall, batchSizes, raised, okRuns, runningAtStart>>
    /\ UNCHANGED extVars

extract == extractFrom(SmallCorpora)

\* the same step over sources large enough to fill several upsert batches
extractBulk == extractFrom(BulkCorpora)

\* the extractor raises (fetch failure, content validation, embedding)
extractRaises ==
    /\ pc = "extract"
    /\ Raise("extract")
    /\ UNCHANGED <<jobs, nextId, vstore, job>>
    /\ UNCHANGED pipeVars
    /\ UNCHANGED <<upsertCall, batchSizes, choice, okRuns, runningAtStart>>
    /\ UNCHANGED extVars

\* shouldStop: (await this.checkJobStatus(job._id)) == "stopped"
shouldStopFalse ==
    /\ pc = "probe"
    /\ checkJobStatus(jobs, job.id) # "stopped"
    /\ docs' = embedDocuments(Corpora[choice])
    /\ pc' = "getCollection"
    /\ UNCHANGED <<jobs, nextId, vstore, job, e, consoleError, source>>
    /\ UNCHANGED <<ids, embeddings, metadatas, vectorDocs, numProcessed, total>>
    /\ UNCHANGED histVars
    /\ UNCHANGED extVars

\* throw new Error("Job stopped by user")
shouldStopTrue ==
    /\ pc = "probe"
    /\ checkJobStatus(jobs, job.id) = "stopped"
    /\ Raise("Job stopped by user")
    /\ UNCHANGED <<jobs, nextId, vstore, job>>
    /\ UNCHANGED pipeVars
    /\ UNCHANGED <<upsertCall, batchSizes, choice, okRuns, runningAtStart>>
    /\ UNCHANGED extVars

\* chroma.getOrCreateCollection, then logger("Deleting previous vectors ..")
\* is called without await
getOrCreateCollection ==
    /\ pc = "getCollection"
    /\ job' = appendLog(job, <<"Deleting previous vectors">>)
    /\ jobs' = updateJobLog(jobs, job.id, job'.log)
    /\ pc' = "delete"
    /\ UNCHANGED <<nextId, vstore, e, consoleError>>
    /\ UNCHANGED pipeVars /\ UNCHANGED histVars
    /\ UNCHANGED extVars

getOrCreateCollectionRaises ==
    /\ pc = "getCollection"
    /\ Raise("getOrCreateCollection")
    /\ UNCHANGED <<jobs, nextId, vstore, job>>
    /\ UNCHANGED pipeVars
    /\ UNCHANGED <<upsertCall, batchSizes, choice, okRuns, runningAtStart>>
    /\ UNCHANGED extVars


\* deleteSourceDocs, one page of the while (true) loop: get, then delete
deleteSourceDocs ==
    /\ pc = "delete"
    /\ LET docIds == collectionGet(vstore, source.id, limit, 0)
       IN /\ Len(docIds) > 0
          /\ vstore' = collectionDelete(vstore, docIds)
          /\ deleteCalls' = Append(deleteCalls, Len(docIds))
    /\ UNCHANGED <<jobs, nextId, pc, job, e, consoleError>>
    /\ UNCHANGED pipeVars /\ UNCHANGED histVars
    /\ UNCHANGED <<fetchVars, sitemapVars, markdownVars, faqVars, logVars, deleteFrom, archiveVars, flarumVars>>

\* deleteSourceDocs gets an empty page and breaks; the re-query only writes
\* to console.error.  The four arrays are then built from docs (499-519).
deleteSourceDocsDone ==
    /\ pc = "delete"
    /\ Len(collectionGet(vstore, source.id, limit, 0)) = 0
    /\ ids' = idsOf(docs)
    /\ embeddings' = embeddingsOf(docs)
    /\ metadatas' = metadatasOf(docs)
    /\ vectorDocs' = vectorDocsOf(docs)
    /\ numProcessed' = 0
    /\ total' = Len(ids')
    /\ pc' = IF Len(ids') > 0 THEN "upsert" ELSE "finish"
    /\ UNCHANGED <<jobs, nextId, vstore, job, e, consoleError, source, docs>>
    /\ UNCHANGED histVars
    /\ UNCHANGED extVars

deleteSourceDocsRaises ==
    /\ pc = "delete"
    /\ Raise("deleteSourceDocs")
    /\ UNCHANGED <<jobs, nextId, vstore, job>>
    /\ UNCHANGED pipeVars
    /\ UNCHANGED <<upsertCall, batchSizes, choice, okRuns, runningAtStart>>
    /\ UNCHANGED extVars

\* the arguments of the next collection.upsert call (522-531)
nextCall ==
    [ids |-> spliceHead(ids, batchSize),
     embeddings |-> spliceHead(embeddings, batchSize),
     metadatas |-> spliceHead(metadatas, batchSize),
     documents |-> spliceHead(vectorDocs, batchSize)]

\* faulty variant: the embeddings are read with slice, which leaves the array whole
spliceArrays_slice ==
    /\ ids' = spliceRest(ids, batchSize)
    /\ embeddings' = embeddings
    /\ metadatas' = spliceRest(metadatas, batchSize)
    /\ vectorDocs' = spliceRest(vectorDocs, batchSize)

\* the four splices of one pass of while (ids.length > 0)
spliceArrays ==
    /\ ids' = spliceRest(ids, batchSize)
    /\ embeddings' = spliceRest(embeddings, batchSize)
    /\ metadatas' = spliceRest(metadatas, batchSize)
    /\ vectorDocs' = spliceRest(vectorDocs, batchSize)

\* faulty variant: numProcessed += batchSize in place of batchIds.length
upsert_fixedCount ==
    /\ pc = "upsert"
    /\ Len(ids) > 0
    /\ validCall(nextCall)
    /\ spliceArrays
    /\ upsertCall' = nextCall
    /\ batchSizes' = Append(batchSizes, Len(nextCall.ids))
    /\ vstore' = collectionUpsert(vstore, nextCall)
    /\ numProcessed' = numProcessed + batchSize
    /\ job' = appendLog(job, <<"Wrote", numProcessed', total>>)
    /\ jobs' = updateJobLog(jobs, job.id, job'.log)
    /\ pc' = IF Len(ids') > 0 THEN "upsert" ELSE "finish"
    /\ UNCHANGED <<nextId, e, consoleError, source, docs, total>>
    /\ UNCHANGED <<raised, choice, okRuns, runningAtStart>>
    /\ UNCHANGED extVars

\* one pass of the upsert loop: the call succeeds, the progress message is
\* handed to the log sink without await
upsert ==
    /\ pc = "upsert"
    /\ Len(ids) > 0
    /\ validCall(nextCall)
    /\ spliceArrays
    /\ upsertCall' = nextCall
    /\ batchSizes' = Append(batchSizes, Len(nextCall.ids))
    /\ vstore' = collectionUpsert(vstore, nextCall)
    /\ numProcessed' = numProcessed + Len(nextCall.ids)
    /\ job' = appendLog(job, <<"Wrote", numProcessed', total>>)
    /\ jobs' = updateJobLog(jobs, job.id, job'.log)
    /\ pc' = IF Len(ids') > 0 THEN "upsert" ELSE "finish"
    /\ UNCHANGED <<nextId, e, consoleError, source, docs, total>>
    /\ UNCHANGED <<raised, choice, okRuns, runningAtStart>>
    /\ UNCHANGED extVars

\* the call rejects (store unreachable, malformed call, or a store that
\* refuses a call carrying one id twice)
upsertRaises ==
    /\ pc = "upsert"
    /\ Len(ids) > 0
    /\ spliceArrays
    /\ upsertCall' = nextCall
    /\ batchSizes' = Append(batchSizes, Len(nextCall.ids))
    /\ Raise("upsert")
    /\ UNCHANGED <<jobs, nextId, vstore, job>>
    /\ UNCHANGED <<source, docs, numProcessed, total>>
    /\ UNCHANGED <<choice, okRuns, runningAtStart>>
    /\ UNCHANGED extVars

\* await this.finishJob(job._id, true)
finishSucceeded ==
    /\ pc = "finish"
    /\ jobs' = finishJob(jobs, job.id, TRUE, DateNow)
    /\ okRuns' = IF Exists(job.id) THEN Append(okRuns, choice) ELSE okRuns
    /\ EndIteration
    /\ UNCHANGED <<nextId, vstore, consoleError, runningAtStart>>
    /\ UNCHANGED extVars

\* finishJob(job._id, true) rejects inside the try block
finishSucceededRejected ==
    /\ pc = "finish"
    /\ e' = <<"Error", "finishJob">>
    /\ pc' = "catch"
    /\ UNCHANGED <<jobs, nextId, vstore, job, consoleError>>
    /\ UNCHANGED pipeVars /\ UNCHANGED histVars
    /\ UNCHANGED extVars

\* catch (e): await this.log(job, message) succeeds
catchLog ==
    /\ pc = "catch"
    /\ job' = appendLog(job, e)
    /\ jobs' = updateJobLog(jobs, job.id, job'.log)
    /\ pc' = "finishFail"
    /\ UNCHANGED <<nextId, vstore, e, consoleError>>
    /\ UNCHANGED pipeVars /\ UNCHANGED histVars
    /\ UNCHANGED extVars

\* catch (e): this.log rejects after job.log was extended; catch (e) {}
catchLogRejected ==
    /\ pc = "catch"
    /\ job' = appendLog(job, e)
    /\ pc' = "finishFail"
    /\ UNCHANGED <<jobs, nextId, vstore, e, consoleError>>
    /\ UNCHANGED pipeVars /\ UNCHANGED histVars
    /\ UNCHANGED extVars

\* await this.finishJob(job._id, false)
finishFailed ==
    /\ pc = "finishFail"
    /\ jobs' = finishJob(jobs, job.id, FALSE, DateNow)
    /\ EndIteration
    /\ UNCHANGED <<nextId, vstore, consoleError, okRuns, runningAtStart>>
    /\ UNCHANGED extVars

\* finishJob(job._id, false) rejects: the outer catch logs it
finishFailedRejected ==
    /\ pc = "finishFail"
    /\ consoleError' = "Error fetching next job"
    /\ EndIteration
    /\ UNCHANGED <<jobs, nextId, vstore, okRuns, runningAtStart>>
    /\ UNCHANGED extVars

\* finally { await sleep(1000) }, then the next pass of while (true)
sleep ==
    /\ pc = "sleep"
    /\ consoleError' = ""
    /\ pc' = "claim"
    /\ UNCHANGED <<jobs, nextId, vstore, job, e>>
    /\ UNCHANGED pipeVars /\ UNCHANGED histVars
    /\ UNCHANGED extVars

\* ------------------------------------------------------------------------
\* Specification
\* ------------------------------------------------------------------------
Next ==
    \/ CreateJob \/ CancelJob \/ DeleteJob
    \/ startup \/ startupRejected
    \/ getNextJob \/ getNextJobNone \/ getNextJobRejected
    \/ getSource \/ getSourceRaises
    \/ extract \/ extractRaises
    \/ shouldStopFalse \/ shouldStopTrue
    \/ getOrCreateCollection \/ getOrCreateCollectionRaises
    \/ deleteSourceDocs \/ deleteSourceDocsDone \/ deleteSourceDocsRaises
    \/ upsert \/ upsertRaises
    \/ finishSucceeded \/ finishSucceededRejected
    \/ catchLog \/ catchLogRejected
    \/ finishFailed \/ finishFailedRejected
    \/ sleep

Spec == Init /\ [][Next]_vars

\* The pipeline over sources of several thousand segments: the jobs wait in
\* the collection at process start and the scheduler works them off.
InitBulk ==
    /\ Init
    /\ DOMAIN jobs # {}
    /\ \A j \in DOMAIN jobs : jobs[j].state = "waiting" /\ jobs[j].createdAt = j

NextBulk ==
    \/ startup
    \/ getNextJob \/ getNextJobNone
    \/ getSource
    \/ extractBulk
    \/ shouldStopFalse
    \/ getOrCreateCollection
    \/ deleteSourceDocs \/ deleteSourceDocsDone
    \/ upsert \/ upsertRaises
    \/ finishSucceeded
    \/ catchLog
    \/ finishFailed
    \/ sleep

SpecBulk == InitBulk /\ [][NextBulk]_vars

\* ------------------------------------------------------------------------
\* The scheduler at rest, for the models of the parts: no job in the
\* collection, nothing claimed
\* ------------------------------------------------------------------------
SchedIdle ==
    /\ jobs = <<>> /\ nextId = 1 /\ runningAtStart = {}
    /\ source = NoSource /\ vstore = <<>> /\ job = NoJob /\ docs = <<>>
    /\ ids = <<>> /\ embeddings = <<>> /\ metadatas = <<>> /\ vectorDocs = <<>>
    /\ numProcessed = 0 /\ total = 0
    /\ e = <<>> /\ consoleError = ""
    /\ upsertCall = NoCall /\ batchSizes = <<>>
    /\ raised = FALSE /\ choice = 0 /\ okRuns = <<>>

\* ------------------------------------------------------------------------
\* fetchWithRetry (processor.ts:114-123).  The calls of one Promise.all run
\* side by side, one per url; fetch either resolves or rejects.
\* ------------------------------------------------------------------------
FetchUrls == {"u" \o ToString(i) : i \in 1..MaxFetchUrls}

\* faulty variant: the loop runs while (tries >= 0)
canTry_inclusive(t) == t >= 0

\* while (tries > 0)
canTry(t) == t > 0

\* the call awaits, has returned the response, or has thrown
\* new Error("Could not fetch " + url)
Pending == [status |-> "pending", error |-> ""]
Returned == [status |-> "returned", error |-> ""]
CouldNotFetch(url) == [status |-> "thrown", error |-> "Could not fetch " \o url]

InitFetch ==
    /\ SchedIdle /\ pc = "fetch"
    /\ SitemapIdle /\ MarkdownIdle /\ FaqIdle /\ LogIdle /\ DeleteIdle /\ ArchiveIdle /\ FlarumIdle
    /\ \E batch \in SUBSET FetchUrls :
         /\ batch # {}
         /\ tries = [u \in batch |-> defaultTries]
         /\ attempts = [u \in batch |-> <<>>]
         /\ responses = [u \in batch |->
                           IF canTry(defaultTries) THEN Pending ELSE CouldNotFetch(u)]

\* const response = await fetch(url); return response;
fetchReturns(u) ==
    /\ responses[u] = Pending
    /\ attempts' = [attempts EXCEPT ![u] = Append(@, "ok")]
    /\ responses' = [responses EXCEPT ![u] = Returned]
    /\ UNCHANGED <<tries, schedVars, sitemapVars, markdownVars, faqVars, logVars, deleteVars, archiveVars, flarumVars>>

\* fetch rejects: catch (e) {}, tries--, and the throw once the loop ends
fetchThrows(u) ==
    /\ responses[u] = Pending
    /\ attempts' = [attempts EXCEPT ![u] = Append(@, "err")]
    /\ tries' = [tries EXCEPT ![u] = @ - 1]
    /\ responses' = [responses EXCEPT ![u] =
                        IF canTry(tries'[u]) THEN Pending ELSE CouldNotFetch(u)]
    /\ UNCHANGED <<schedVars, sitemapVars, markdownVars, faqVars, logVars, deleteVars, archiveVars, flarumVars>>

NextFetch == \E u \in DOMAIN responses : fetchReturns(u) \/ fetchThrows(u)

SpecFetch == InitFetch /\ [][NextFetch]_vars

\* ------------------------------------------------------------------------
\* Texts.  A text is a sequence of pieces (lines); the tokenizer gives each
\* piece its tokens, and Embedder.tokenize(text).length adds them up.
\* ------------------------------------------------------------------------
Piece(txt, tok) == [txt |-> txt, tok |-> tok]

RECURSIVE tokenizeLength(_)
tokenizeLength(text) ==
    IF text = <<>> THEN 0 ELSE Head(text).tok + tokenizeLength(Tail(text))

\* ------------------------------------------------------------------------
\* SitemapProccessor.process (processor.ts:332-400).  A url is the sequence
\* of its path segments; a pattern is a sequence of segments, "*" for one
\* segment and "**" for any number of them.
\* ------------------------------------------------------------------------
RECURSIVE minimatch(_, _)
minimatch(url, pattern) ==
    IF pattern = <<>> THEN url = <<>>
    ELSE IF Head(pattern) = "**"
         THEN minimatch(url, Tail(pattern))
              \/ (url # <<>> /\ minimatch(Tail(url), pattern))
         ELSE /\ url # <<>>
              /\ Head(pattern) = "*" \/ Head(pattern) = Head(url)
              /\ minimatch(Tail(url), Tail(pattern))

\* faulty variant: an empty exclude list is read as "exclude everything"
isNotExcluded_strict(url, excl) ==
    excl # <<>> /\ \A k \in 1..Len(excl) : ~minimatch(url, excl[k])

\* included.length === 0 || included.some((pattern) => minimatch(url, pattern))
isIncluded(url, incl) ==
    Len(incl) = 0 \/ \E k \in 1..Len(incl) : minimatch(url, incl[k])

\* excluded.length === 0 || !excluded.some((pattern) => minimatch(url, pattern))
isNotExcluded(url, excl) ==
    Len(excl) = 0 \/ ~(\E k \in 1..Len(excl) : minimatch(url, excl[k]))

\* for (let url of locElements) if (isIncluded && isNotExcluded) urls.push(url)
filterUrls(ls, incl, excl) ==
    SelectSeq(ls, LAMBDA url : isIncluded(url, incl) /\ isNotExcluded(url, excl))

\* the sitemaps the model draws from: the three urls of a small site, and
\* n urls of which every tenth is a blog page and every seventh internal
Sitemap(n) ==
    [i \in 1..n |->
        IF i % 10 = 0 THEN <<"blog", ToString(i)>>
        ELSE IF i % 7 = 0 THEN <<"docs", "internal", ToString(i)>>
        ELSE <<"docs", ToString(i)>>]

Sitemaps ==
    { << <<"docs", "a">>, <<"docs", "internal", "b">>, <<"blog", "c">> >>,
      Sitemap(sitemapBatch), Sitemap(sitemapBatch + 1), Sitemap(MaxLocs) }

IncludeLists == { <<>>, << <<"docs", "**">> >>, << <<"blog", "*">>, <<"docs", "*">> >> }
ExcludeLists == { <<>>, << <<"docs", "internal", "**">> >> }

\* positions of a batch whose response has no html to offer
MissingHtml == { {}, {1}, {2} }

\* the documents one pass of the loop pushes: one per html present, in
\* order, with uri: batchUrls[i] for the i-th document pushed
batchDocuments(batchUrls, missing) ==
    LET present == SelectSeq([k \in 1..Len(batchUrls) |-> k], LAMBDA k : k \notin missing)
    IN [i \in 1..Len(present) |->
          [uri |-> batchUrls[i],
           title |-> <<"title of", batchUrls[present[i]]>>,
           text |-> << Piece(<<"title of", batchUrls[present[i]]>>, 1),
                       Piece(<<"content of", batchUrls[present[i]]>>, 2) >>,
           segments |-> <<>>]]

\* recursiveSplit(doc, 512, 0) on a page short enough for one chunk
recursiveSplitPage(doc) ==
    [doc EXCEPT !.segments =
        << [text |-> doc.text, tokenCount |-> tokenizeLength(doc.text), embedding |-> <<>>] >>]

InitSitemap ==
    /\ FetchIdle /\ MarkdownIdle /\ FaqIdle /\ LogIdle /\ DeleteIdle /\ ArchiveIdle /\ FlarumIdle
    /\ jobs = <<JobDoc("running", 1, DateNow, Unset)>>
    /\ nextId = 2 /\ runningAtStart = {}
    /\ job = [id |-> 1, log |-> <<>>]
    /\ source = [id |-> sourceId, type |-> "sitemap"]
    /\ vstore = <<>> /\ docs = <<>>
    /\ ids = <<>> /\ embeddings = <<>> /\ metadatas = <<>> /\ vectorDocs = <<>>
    /\ numProcessed = 0 /\ total = 0
    /\ e = <<>> /\ consoleError = ""
    /\ upsertCall = NoCall /\ batchSizes = <<>>
    /\ raised = FALSE /\ choice = 0 /\ okRuns = <<>>
    /\ pc = "sitemapParse"
    /\ locs \in Sitemaps
    /\ included \in IncludeLists
    /\ excluded \in ExcludeLists
    /\ urls = <<>> /\ kept = <<>> /\ batches = <<>> /\ probes = 0

\* what the steps of the extractor leave alone
sitemapFrame ==
    UNCHANGED <<nextId, source, vstore, ids, embeddings, metadatas, vectorDocs,
                numProcessed, total, consoleError, upsertCall, batchSizes,
                choice, okRuns, runningAtStart,
                locs, included, excluded,
                fetchVars, markdownVars, faqVars, logVars, deleteVars, archiveVars, flarumVars>>

\* the extractor throws: the error leaves process() for the caller
sitemapThrow(err) ==
    /\ e' = err
    /\ raised' = TRUE
    /\ pc' = "sitemapThrown"

\* the sitemap is fetched and parsed, the filter loop runs, log("Scraping ..")
sitemapFilter ==
    /\ pc = "sitemapParse"
    /\ urls' = filterUrls(locs, included, excluded)
    /\ kept' = urls'
    /\ job' = appendLog(job, <<"Scraping", Len(urls')>>)
    /\ jobs' = updateJobLog(jobs, job.id, job'.log)
    /\ pc' = IF Len(urls') > 0 THEN "sitemapBatch" ELSE "sitemapEmbed"
    /\ UNCHANGED <<docs, e, raised, batches, probes>>
    /\ sitemapFrame

\* fetching or parsing the sitemap fails
sitemapParseRaises ==
    /\ pc = "sitemapParse"
    /\ sitemapThrow(<<"Error", "sitemap">>)
    /\ UNCHANGED <<jobs, job, docs, urls, kept, batches, probes>>
    /\ sitemapFrame

\* faulty variant: the probe is left for the end of the loop
sitemapBatchFetched_probeAtEnd ==
    /\ pc = "sitemapBatch"
    /\ LET batchUrls == spliceHead(urls, sitemapBatch)
       IN /\ urls' = spliceRest(urls, sitemapBatch)
          /\ batches' = Append(batches, batchUrls)
          /\ \E missing \in MissingHtml : docs' = docs \o batchDocuments(batchUrls, missing)
    /\ job' = appendLog(job, <<"Scraped", Len(docs'), Len(kept)>>)
    /\ jobs' = updateJobLog(jobs, job.id, job'.log)
    /\ pc' = IF Len(urls') > 0 THEN "sitemapBatch" ELSE "sitemapProbe"
    /\ UNCHANGED <<e, raised, kept, probes>>
    /\ sitemapFrame

\* one pass of while (urls.length > 0) up to the probe: the batch is
\* spliced off, every fetchWithRetry returns, the documents are pushed
sitemapBatchFetched ==
    /\ pc = "sitemapBatch"
    /\ LET batchUrls == spliceHead(urls, sitemapBatch)
       IN /\ urls' = spliceRest(urls, sitemapBatch)
          /\ batches' = Append(batches, batchUrls)
          /\ \E missing \in MissingHtml : docs' = docs \o batchDocuments(batchUrls, missing)
    /\ job' = appendLog(job, <<"Scraped", Len(docs'), Len(kept)>>)
    /\ jobs' = updateJobLog(jobs, job.id, job'.log)
    /\ pc' = "sitemapProbe"
    /\ UNCHANGED <<e, raised, kept, probes>>
    /\ sitemapFrame

\* a fetchWithRetry of the batch throws and Promise.all rejects
sitemapBatchRaises ==
    /\ pc = "sitemapBatch"
    /\ LET batchUrls == spliceHead(urls, sitemapBatch)
       IN /\ urls' = spliceRest(urls, sitemapBatch)
          /\ batches' = Append(batches, batchUrls)
          /\ \E k \in {1, Len(batchUrls)} :
                sitemapThrow(<<"Error", "Could not fetch", batchUrls[k]>>)
    /\ UNCHANGED <<jobs, job, docs, kept, probes>>
    /\ sitemapFrame

\* if (await this.shouldStop()) is false: the next pass, or the loop ends
sitemapProbeFalse ==
    /\ pc = "sitemapProbe"
    /\ checkJobStatus(jobs, job.id) # "stopped"
    /\ probes' = probes + 1
    /\ pc' = IF Len(urls) > 0 THEN "sitemapBatch" ELSE "sitemapEmbed"
    /\ UNCHANGED <<jobs, job, docs, e, raised, urls, kept, batches>>
    /\ sitemapFrame

\* throw new Error("Job stopped by user")
sitemapProbeTrue ==
    /\ pc = "sitemapProbe"
    /\ checkJobStatus(jobs, job.id) = "stopped"
    /\ probes' = probes + 1
    /\ sitemapThrow(<<"Error", "Job stopped by user">>)
    /\ UNCHANGED <<jobs, job, docs, urls, kept, batches>>
    /\ sitemapFrame

\* embedder.embedDocuments(documents, shouldStop, recursiveSplit); return
sitemapEmbed ==
    /\ pc = "sitemapEmbed"
    /\ docs' = embedDocuments([d \in 1..Len(docs) |-> recursiveSplitPage(docs[d])])
    /\ pc' = "sitemapReturned"
    /\ UNCHANGED <<jobs, job, e, raised, urls, kept, batches, probes>>
    /\ sitemapFrame

\* the embedding fails
sitemapEmbedRaises ==
    /\ pc = "sitemapEmbed"
    /\ sitemapThrow(<<"Error", "embed">>)
    /\ UNCHANGED <<jobs, job, docs, urls, kept, batches, probes>>
    /\ sitemapFrame

NextSitemap ==
    \/ CancelJob \/ DeleteJob
    \/ sitemapFilter \/ sitemapParseRaises
    \/ sitemapBatchFetched \/ sitemapBatchRaises
    \/ sitemapProbeFalse \/ sitemapProbeTrue
    \/ sitemapEmbed \/ sitemapEmbedRaises

SpecSitemap == InitSitemap /\ [][NextSitemap]_vars

\* ------------------------------------------------------------------------
\* MarkdownZipProccessor.process: the callback that segments one document
\* (processor.ts:266-327).  A text is the sequence of its lines; a line is
\* a Piece whose txt is <<kind, hashes, position>>.
\* ------------------------------------------------------------------------
docTitle == Piece(<<"title", 0, 0>>, 1)

LineKinds ==
    {[hashes |-> d, tok |-> 1] : d \in 1..3} \cup {[hashes |-> 0, tok |-> w] : w \in {1, 300}}

\* doc.text.split("\n") of the documents the model draws from
MarkdownDocs ==
    UNION {{[i \in 1..n |->
               Piece(<<IF f[i].hashes = 0 THEN "body" ELSE "heading", f[i].hashes, i>>, f[i].tok)]
            : f \in [1..n -> LineKinds]} : n \in 1..MaxLines}

countHashAtBeginning(line) == line.txt[2]

\* doc.title + "\n" + title.join("\n") + "\n"
prefixOf(ttl) == <<docTitle>> \o ttl

\* faulty variant: the prefix is left in the buffer
replaceFirst_kept(text, t) == text

\* currText.replace(t, ""): the first occurrence of t is removed
replaceFirst(text, t) ==
    LET occ == {i \in 1..(Len(text) - Len(t) + 1) : SubSeq(text, i, i + Len(t) - 1) = t}
    IN IF occ = {} THEN text
       ELSE LET i == CHOOSE k \in occ : \A m \in occ : k <= m
            IN SubSeq(text, 1, i - 1) \o SubSeq(text, i + Len(t), Len(text))

\* what splitter.splitText may return: the text cut into consecutive chunks
RECURSIVE Splits(_)
Splits(text) ==
    IF text = <<>> THEN {<<>>}
    ELSE UNION {{<<SubSeq(text, 1, k)>> \o rest
                 : rest \in Splits(SubSeq(text, k + 1, Len(text)))} : k \in 1..Len(text)}

\* recursiveSplit(tmpDoc, 1024, 0), one of its outcomes
recursiveSplit(chunks) ==
    [k \in 1..Len(chunks) |->
        [text |-> chunks[k], tokenCount |-> tokenizeLength(chunks[k]), embedding |-> <<>>]]

\* if (currText.length > 0) { ... }: the segments after the buffer is flushed
flush(segs, ttl, text, chunks) ==
    IF Len(text) > 0
    THEN LET tokenCount == tokenizeLength(text)
         IN IF tokenCount > 500
            THEN LET t == prefixOf(ttl)
                     tmp == recursiveSplit(chunks)
                 IN segs \o [k \in 1..Len(tmp) |-> [tmp[k] EXCEPT !.text = t \o @]]
            ELSE Append(segs, [text |-> text, tokenCount |-> tokenCount, embedding |-> <<>>])
    ELSE segs

\* the flush as the history records it
flushRecord(segs, segsAfter, ttl, text) ==
    [crumb |-> ttl, buffer |-> text, first |-> Len(segs) + 1, last |-> Len(segsAfter)]

RECURSIVE popWhile(_, _)
popWhile(ttl, hashes) ==
    IF Len(ttl) > 0 /\ countHashAtBeginning(ttl[Len(ttl)]) >= hashes
    THEN popWhile(SubSeq(ttl, 1, Len(ttl) - 1), hashes)
    ELSE ttl

\* if (hashes > title.length) title.push(..) else { pop ..; title.push(..) }
pushHeading(ttl, line) ==
    IF countHashAtBeginning(line) > Len(ttl)
    THEN Append(ttl, line)
    ELSE Append(popWhile(ttl, countHashAtBeginning(line)), line)

InitMarkdown ==
    /\ SchedIdle /\ pc = "mdLine"
    /\ FetchIdle /\ SitemapIdle /\ FaqIdle /\ LogIdle /\ DeleteIdle /\ ArchiveIdle /\ FlarumIdle
    /\ docText \in MarkdownDocs
    /\ lines = docText
    /\ title = <<>> /\ currText = <<>> /\ segments = <<>> /\ flushes = <<>>

\* what the steps of the callback leave alone
markdownFrame ==
    UNCHANGED <<jobs, nextId, source, vstore, job, docs, ids, embeddings, metadatas,
                vectorDocs, numProcessed, total, e, consoleError, upsertCall, batchSizes,
                raised, choice, okRuns, runningAtStart,
                docText, fetchVars, sitemapVars, faqVars, logVars, deleteVars, archiveVars, flarumVars>>

\* hashes == 0: currText += line + "\n"
mdBodyLine ==
    /\ pc = "mdLine" /\ Len(lines) > 0
    /\ countHashAtBeginning(Head(lines)) = 0
    /\ currText' = Append(currText, Head(lines))
    /\ lines' = Tail(lines)
    /\ UNCHANGED <<pc, title, segments, flushes>>
    /\ markdownFrame

\* a heading line: flush, update the breadcrumb, reset the buffer
mdHeadingLine ==
    /\ pc = "mdLine" /\ Len(lines) > 0
    /\ countHashAtBeginning(Head(lines)) > 0
    /\ \E chunks \in Splits(replaceFirst(currText, prefixOf(title))) :
          segments' = flush(segments, title, currText, chunks)
    /\ flushes' = IF Len(currText) > 0
                  THEN Append(flushes, flushRecord(segments, segments', title, currText))
                  ELSE flushes
    /\ title' = pushHeading(title, Head(lines))
    /\ currText' = prefixOf(title')
    /\ lines' = Tail(lines)
    /\ UNCHANGED pc
    /\ markdownFrame

\* after the loop: the last buffer is flushed and the callback returns
mdLastFlush ==
    /\ pc = "mdLine" /\ Len(lines) = 0
    /\ \E chunks \in Splits(replaceFirst(currText, prefixOf(title))) :
          segments' = flush(segments, title, currText, chunks)
    /\ flushes' = IF Len(currText) > 0
                  THEN Append(flushes, flushRecord(segments, segments', title, currText))
                  ELSE flushes
    /\ pc' = "mdDone"
    /\ UNCHANGED <<lines, title, currText>>
    /\ markdownFrame

NextMarkdown == mdBodyLine \/ mdHeadingLine \/ mdLastFlush

SpecMarkdown == InitMarkdown /\ [][NextMarkdown]_vars

\* ------------------------------------------------------------------------
\* FaqProccessor.process (processor.ts:131-153) and the upsert of what it
\* returns.  An entry is its id and the token counts of questions and answer.
\* ------------------------------------------------------------------------
FaqEntries == {[id |-> i, questions |-> 1, answer |-> a] : i \in 1..MaxFaqs, a \in {1, 499, 500}}

\* source.faqs: up to MaxFaqs entries with the ids 1, 2, ..
FaqSources ==
    UNION {{f \in [1..n -> FaqEntries] : \A i \in 1..n : f[i].id = i} : n \in 1..MaxFaqs}

\* documents.push({ uri, text: entry.questions + "\n\n" + entry.answer, title, .. })
faqDocument(entry) ==
    [uri |-> "faq://" \o sourceId \o "/" \o ToString(entry.id),
     text |-> << Piece(<<"questions", entry.id>>, entry.questions),
                 Piece(<<"answer", entry.id>>, entry.answer) >>,
     title |-> <<"questions", entry.id>>,
     segments |-> <<>>]

\* faulty variant: an entry of exactly 500 tokens is refused
tooLong_inclusive(tokenCount) == tokenCount >= 500

\* if (tokenCount > 500)
tooLong(tokenCount) == tokenCount > 500

\* the first document the callback has not been called for
nextDoc(ds) == CHOOSE d \in 1..Len(ds) : ds[d].segments = <<>> /\ \A k \in 1..(d - 1) : ds[k].segments # <<>>

InitFaq ==
    /\ FetchIdle /\ SitemapIdle /\ MarkdownIdle /\ LogIdle /\ DeleteIdle /\ ArchiveIdle /\ FlarumIdle
    /\ jobs = <<JobDoc("running", 1, DateNow, Unset)>>
    /\ nextId = 2 /\ runningAtStart = {}
    /\ job = [id |-> 1, log |-> <<>>]
    /\ source = [id |-> sourceId, type |-> "faq"]
    /\ vstore = <<>> /\ docs = <<>>
    /\ ids = <<>> /\ embeddings = <<>> /\ metadatas = <<>> /\ vectorDocs = <<>>
    /\ numProcessed = 0 /\ total = 0
    /\ e = <<>> /\ consoleError = ""
    /\ upsertCall = NoCall /\ batchSizes = <<>>
    /\ raised = FALSE /\ choice = 0 /\ okRuns = <<>>
    /\ pc = "faqProcess"
    /\ faqs \in FaqSources

\* what the steps of the extractor leave alone
faqFrame ==
    UNCHANGED <<nextId, source, ids, embeddings, metadatas, vectorDocs,
                numProcessed, total, consoleError, upsertCall, batchSizes,
                choice, okRuns, runningAtStart,
                faqs, fetchVars, sitemapVars, markdownVars, logVars, deleteVars, archiveVars, flarumVars>>

\* await this.log("Processing .."); one document per entry
faqDocuments ==
    /\ pc = "faqProcess"
    /\ job' = appendLog(job, <<"Processing", Len(faqs), "FAQ entries">>)
    /\ jobs' = updateJobLog(jobs, job.id, job'.log)
    /\ docs' = [i \in 1..Len(faqs) |-> faqDocument(faqs[i])]
    /\ pc' = "faqSplit"
    /\ UNCHANGED <<vstore, e, raised>>
    /\ faqFrame

\* the callback on a document of at most 500 tokens
faqSegment ==
    /\ pc = "faqSplit"
    /\ \E d \in 1..Len(docs) :
          /\ d = nextDoc(docs)
          /\ LET tokenCount == tokenizeLength(docs[d].text)
             IN /\ ~tooLong(tokenCount)
                /\ docs' = [docs EXCEPT ![d].segments =
                              << [text |-> docs[d].text, tokenCount |-> tokenCount,
                                  embedding |-> <<>>] >>]
    /\ pc' = IF \A d \in 1..Len(docs') : docs'[d].segments # <<>> THEN "faqEmbed" ELSE "faqSplit"
    /\ UNCHANGED <<jobs, job, vstore, e, raised>>
    /\ faqFrame

\* the callback throws: embedDocuments rejects and so does process()
faqSegmentThrows ==
    /\ pc = "faqSplit"
    /\ \E d \in 1..Len(docs) :
          /\ d = nextDoc(docs)
          /\ tooLong(tokenizeLength(docs[d].text))
          /\ e' = <<"Error", "Token count of FAQ entry", docs[d].title, "> 500, make it smaller.">>
    /\ raised' = TRUE
    /\ pc' = "faqThrown"
    /\ UNCHANGED <<jobs, job, docs, vstore>>
    /\ faqFrame

\* embedDocuments sets the embeddings; return documents
faqEmbed ==
    /\ pc = "faqEmbed"
    /\ docs' = embedDocuments(docs)
    /\ pc' = "faqReturned"
    /\ UNCHANGED <<jobs, job, vstore, e, raised>>
    /\ faqFrame

\* the scheduler upserts the records of the returned documents
faqUpsert ==
    /\ pc = "faqReturned"
    /\ vstore' = collectionUpsert(vstore, [ids |-> idsOf(docs), embeddings |-> embeddingsOf(docs),
                                           metadatas |-> metadatasOf(docs),
                                           documents |-> vectorDocsOf(docs)])
    /\ pc' = "faqStored"
    /\ UNCHANGED <<jobs, job, docs, e, raised>>
    /\ faqFrame

NextFaq == faqDocuments \/ faqSegment \/ faqSegmentThrows \/ faqEmbed \/ faqUpsert

SpecFaq == InitFaq /\ [][NextFaq]_vars

\* ------------------------------------------------------------------------
\* The scheduler loop with the log writes it does not await
\* (processor.ts:436-440, 458-556).  Processor.log extends job.log at once
\* and sends jobs.updateOne with the whole log; logger(..) at 497 and 533 is
\* called without await, so the loop goes on while the write is under way.
\* The writes under way reach the store in any order; a write that rejects
\* has no handler, and the runtime either reports it and goes on or ends
\* the process.
\* ------------------------------------------------------------------------
InitLog ==
    /\ FetchIdle /\ SitemapIdle /\ MarkdownIdle /\ FaqIdle /\ DeleteIdle /\ ArchiveIdle /\ FlarumIdle
    /\ jobs = <<JobDoc("waiting", 1, Unset, Unset)>>
    /\ nextId = 2 /\ runningAtStart = {}
    /\ job = NoJob /\ source = NoSource
    /\ vstore = <<>> /\ docs = <<>>
    /\ ids = <<>> /\ embeddings = <<>> /\ metadatas = <<>> /\ vectorDocs = <<>>
    /\ numProcessed = 0 /\ total = 0
    /\ e = <<>> /\ consoleError = ""
    /\ upsertCall = NoCall /\ batchSizes = <<>>
    /\ raised = FALSE /\ choice = 0 /\ okRuns = <<>>
    /\ pc = "claim"
    /\ inflight = {} /\ written = <<>>

\* job.log += message + "\n"; this.updateJobLog(job._id, job.log) under way
logUnawaited(jb, message) ==
    /\ job' = appendLog(jb, message)
    /\ inflight' = inflight \cup {[jobId |-> jb.id, log |-> job'.log]}

\* what the steps of the pipeline leave alone here
logFrame ==
    UNCHANGED <<jobs, nextId, source, vstore, docs, ids, embeddings, metadatas, vectorDocs,
                total, e, consoleError, upsertCall, batchSizes, raised, choice, okRuns,
                runningAtStart, written,
                fetchVars, sitemapVars, markdownVars, faqVars, deleteVars, archiveVars, flarumVars>>

\* source, extraction and collection are fetched;
\* logger("Deleting previous vectors for source " + source._id)
loggerDeleting ==
    /\ pc = "getSource"
    /\ logUnawaited(job, <<"Deleting previous vectors">>)
    /\ numProcessed' = 0
    /\ \E more \in BOOLEAN : pc' = IF more THEN "logUpsert" ELSE "finish"
    /\ logFrame

\* one pass of the upsert loop; logger(`Wrote ${numProcessed}/${total} ..`)
loggerWrote ==
    /\ pc = "logUpsert"
    /\ numProcessed' = numProcessed + 1
    /\ logUnawaited(job, <<"Wrote", numProcessed'>>)
    /\ \E more \in BOOLEAN :
          pc' = IF more /\ numProcessed' < MaxLogBatches THEN "logUpsert" ELSE "finish"
    /\ logFrame

\* the store applies one of the updateOne calls under way
updateJobLogApplied ==
    /\ \E w \in inflight :
          /\ jobs' = updateJobLog(jobs, w.jobId, w.log)
          /\ written' = Append(written, w)
          /\ inflight' = inflight \ {w}
    /\ UNCHANGED <<nextId, source, vstore, pc, job, docs, ids, embeddings, metadatas,
                   vectorDocs, numProcessed, total, e, consoleError, upsertCall, batchSizes,
                   raised, choice, okRuns, runningAtStart>>
    /\ UNCHANGED <<fetchVars, sitemapVars, markdownVars, faqVars, deleteVars, archiveVars, flarumVars>>

\* one of the updateOne calls under way rejects: nothing awaits or catches
\* the promise, and the runtime reports it and goes on or ends the process
updateJobLogRejected ==
    /\ pc # "exited"
    /\ \E w \in inflight : inflight' = inflight \ {w}
    /\ \E exits \in BOOLEAN : pc' = IF exits THEN "exited" ELSE pc
    /\ UNCHANGED <<jobs, nextId, source, vstore, job, docs, ids, embeddings, metadatas,
                   vectorDocs, numProcessed, total, e, consoleError, upsertCall, batchSizes,
                   raised, choice, okRuns, runningAtStart, written>>
    /\ UNCHANGED <<fetchVars, sitemapVars, markdownVars, faqVars, deleteVars, archiveVars, flarumVars>>

NextLog ==
    \/ getNextJob \/ getNextJobNone \/ getNextJobRejected
    \/ loggerDeleting \/ loggerWrote
    \/ updateJobLogApplied \/ updateJobLogRejected
    \/ finishSucceeded \/ sleep

SpecLog == InitLog /\ [][NextLog]_vars

\* ------------------------------------------------------------------------
\* Processor.deleteSourceDocs on its own (processor.ts:442-455): a
\* collection holding n records of the source among records of another
\* source, n around the multiples of the page size.
\* ------------------------------------------------------------------------
otherSourceId == "s2"

storedRecord(sid, i) ==
    [id |-> sid \o "/" \o ToString(i) \o "|0",
     embedding |-> <<>>,
     metadata |-> [sourceId |-> sid, docUri |-> sid \o "/" \o ToString(i),
                   docTitle |-> "", index |-> 0, tokenCount |-> 1],
     document |-> <<>>]

\* a records of the other source, half of the n records of the source,
\* b more records of the other source, the rest of the n
Collection(n, a, b) ==
    [i \in 1..a |-> storedRecord(otherSourceId, i)]
    \o [i \in 1..(n \div 2) |-> storedRecord(sourceId, i)]
    \o [i \in 1..b |-> storedRecord(otherSourceId, a + i)]
    \o [i \in 1..(n - (n \div 2)) |-> storedRecord(sourceId, (n \div 2) + i)]

DeleteSizes ==
    {0, 1} \cup {k * limit - 1 : k \in 1..MaxPages}
           \cup {k * limit : k \in 1..MaxPages}
           \cup {k * limit + 1 : k \in 1..(MaxPages - 1)}

InitDelete ==
    /\ FetchIdle /\ SitemapIdle /\ MarkdownIdle /\ FaqIdle /\ LogIdle
    /\ ArchiveIdle /\ FlarumIdle
    /\ jobs = <<JobDoc("running", 1, DateNow, Unset)>>
    /\ nextId = 2 /\ runningAtStart = {}
    /\ job = [id |-> 1, log |-> <<>>]
    /\ source = [id |-> sourceId, type |-> "faq"]
    /\ docs = <<>>
    /\ ids = <<>> /\ embeddings = <<>> /\ metadatas = <<>> /\ vectorDocs = <<>>
    /\ numProcessed = 0 /\ total = 0
    /\ e = <<>> /\ consoleError = ""
    /\ upsertCall = NoCall /\ batchSizes = <<>>
    /\ raised = FALSE /\ choice = 0 /\ okRuns = <<>>
    /\ pc = "delete"
    /\ \E n \in DeleteSizes, a \in 0..MaxForeign, b \in 0..MaxForeign :
          vstore = Collection(n, a, b)
    /\ deleteFrom = vstore
    /\ deleteCalls = <<>>

NextDelete ==
    \/ deleteSourceDocs
    \/ deleteSourceDocsDone
    \/ deleteSourceDocsRaises

SpecDelete == InitDelete /\ [][NextDelete]_vars

\* ------------------------------------------------------------------------
\* MarkdownZipProccessor.process, the loop over the archive
\* (processor.ts:224-265).  A string is the sequence of its pieces, among
\* them " ", "\r" and "\n"; a path is a string too.
\* ------------------------------------------------------------------------
Whitespace == {" ", "\r", "\n"}

\* String.prototype.trim
RECURSIVE trimStart(_)
trimStart(str) ==
    IF str # <<>> /\ Head(str) \in Whitespace THEN trimStart(Tail(str)) ELSE str

RECURSIVE trimEnd(_)
trimEnd(str) ==
    IF str # <<>> /\ str[Len(str)] \in Whitespace
    THEN trimEnd(SubSeq(str, 1, Len(str) - 1)) ELSE str

trim(str) == trimEnd(trimStart(str))

startsWith(str, piece) == str # <<>> /\ Head(str) = piece
endsWith(str, piece) == str # <<>> /\ str[Len(str)] = piece
includes(str, piece) == \E k \in 1..Len(str) : str[k] = piece

\* content.replaceAll("\r", "")
replaceAll(str, piece) == SelectSeq(str, LAMBDA c : c # piece)

\* str.replace(piece, ""): the first occurrence is removed
replace(str, piece) ==
    IF includes(str, piece)
    THEN LET i == CHOOSE k \in 1..Len(str) :
                      str[k] = piece /\ \A m \in 1..(k - 1) : str[m] # piece
         IN SubSeq(str, 1, i - 1) \o SubSeq(str, i + 1, Len(str))
    ELSE str

\* str.split("\n")
RECURSIVE split(_)
split(str) ==
    IF includes(str, "\n")
    THEN LET i == CHOOSE k \in 1..Len(str) :
                      str[k] = "\n" /\ \A m \in 1..(k - 1) : str[m] # "\n"
         IN <<SubSeq(str, 1, i - 1)>> \o split(SubSeq(str, i + 1, Len(str)))
    ELSE <<str>>

\* lines.join("\n")
RECURSIVE join(_)
join(ls) ==
    IF ls = <<>> THEN <<>>
    ELSE IF Len(ls) = 1 THEN ls[1]
    ELSE Head(ls) \o <<"\n">> \o join(Tail(ls))

\* lines.slice(from)
slice(ls, from) == SubSeq(ls, from + 1, Len(ls))

\* faulty variant: the marker is looked for in any line of the entry
hasMarker_anywhere(ls) ==
    \E k \in 1..Len(ls) : startsWith(ls[k], "[[") /\ endsWith(trim(ls[k]), "]]")

\* lines[3].startsWith("[[") && lines[3].trim().endsWith("]]")
hasMarker(ls) == startsWith(ls[4], "[[") /\ endsWith(trim(ls[4]), "]]")

\* the contents the entries are drawn from, written line by line
Contents ==
    LET body == << <<>>, <<"body">>, <<"more", " ">>, <<>> >>
    IN { join(<< <<"url1">>, <<>>, <<"[", "Title", "]">>, <<"[[", "]]">> >> \o body),
         join(<< <<"url2", "\r">>, <<"\r">>, <<"[", "Title", "]", "\r">>,
                 <<"[[", "toc", "]]", "\r">>, <<"body", "\r">> >>),
         join(<< <<" ", "url3", " ">>, <<"x">>, <<"Title">>, <<"[[", "]]", " ">> >>),
         join(<< <<"url4">>, <<>>, <<"[", "Title", "]">>, <<" ", "[[", "]]">> >> \o body),
         join(<< <<"url5">>, <<>>, <<"[", "Title", "]">>, <<"body">>, <<"[[", "]]">> >>),
         join(<< <<"url6">>, <<>>, <<"[", "Title", "]">> >>),
         <<>> }

\* the entry at place i of the archive: a markdown file, a file of the
\* __MACOSX folder, or a file that is not markdown
EntriesAt(i) ==
    {[relativePath |-> <<"docs/", ToString(i), ".md">>, content |-> c] : c \in Contents}
    \cup {[relativePath |-> <<"__MACOSX/", "docs/", "._", ToString(i), ".md">>, content |-> <<"binary">>],
          [relativePath |-> <<"img/", ToString(i), ".png">>, content |-> <<"binary">>]}

\* the archives of n entries
RECURSIVE Archives(_)
Archives(n) ==
    IF n = 0 THEN {<<>>}
    ELSE {Append(files, entry) : files \in Archives(n - 1), entry \in EntriesAt(n)}

\* the callback of embedDocuments on one document: the heading-aware split
\* of SpecMarkdown, here for a body short enough for one segment
segmentsOf(doc) ==
    IF doc.text = <<>> THEN doc
    ELSE [doc EXCEPT !.segments =
             << [text |-> doc.text, tokenCount |-> Len(doc.text), embedding |-> <<>>] >>]

InitArchive ==
    /\ FetchIdle /\ SitemapIdle /\ MarkdownIdle /\ FaqIdle /\ LogIdle /\ DeleteIdle
    /\ FlarumIdle
    /\ jobs = <<JobDoc("running", 1, DateNow, Unset)>>
    /\ nextId = 2 /\ runningAtStart = {}
    /\ job = [id |-> 1, log |-> <<>>]
    /\ source = [id |-> sourceId, type |-> "markdownzip"]
    /\ vstore = <<>> /\ docs = <<>>
    /\ ids = <<>> /\ embeddings = <<>> /\ metadatas = <<>> /\ vectorDocs = <<>>
    /\ numProcessed = 0 /\ total = 0
    /\ e = <<>> /\ consoleError = ""
    /\ upsertCall = NoCall /\ batchSizes = <<>>
    /\ raised = FALSE /\ choice = 0 /\ okRuns = <<>>
    /\ pc = "archiveOpen"
    /\ \E n \in 0..MaxEntries : zipFiles \in Archives(n)
    /\ fileIdx = 0

\* what the steps of the extractor leave alone
archiveFrame ==
    UNCHANGED <<nextId, source, vstore, ids, embeddings, metadatas, vectorDocs,
                numProcessed, total, consoleError, upsertCall, batchSizes,
                choice, okRuns, runningAtStart, zipFiles,
                fetchVars, sitemapVars, markdownVars, faqVars, logVars,
                deleteVars, flarumVars>>

\* the extractor throws: the error leaves process() for the caller
archiveThrow(err) ==
    /\ e' = err
    /\ raised' = TRUE
    /\ pc' = "archiveThrown"

\* the file exists and JSZip.loadAsync returns the archive
archiveOpened ==
    /\ pc = "archiveOpen"
    /\ pc' = "archiveLoop"
    /\ UNCHANGED <<jobs, job, docs, e, raised, fileIdx>>
    /\ archiveFrame

\* throw new Error("Could not find file " + this.source.file)
archiveOpenRaises ==
    /\ pc = "archiveOpen"
    /\ archiveThrow(<<"Error", "Could not find file">>)
    /\ UNCHANGED <<jobs, job, docs, fileIdx>>
    /\ archiveFrame

\* an entry of __MACOSX/ or one that does not end in .md: the next entry
archiveEntrySkipped ==
    /\ pc = "archiveLoop"
    /\ fileIdx < Len(zipFiles)
    /\ LET relativePath == zipFiles[fileIdx + 1].relativePath
       IN includes(relativePath, "__MACOSX/") \/ ~endsWith(relativePath, ".md")
    /\ fileIdx' = fileIdx + 1
    /\ UNCHANGED <<jobs, job, docs, e, raised, pc>>
    /\ archiveFrame

\* a markdown entry with its header: documents.push(doc), await this.log(..)
archiveEntryRead ==
    /\ pc = "archiveLoop"
    /\ fileIdx < Len(zipFiles)
    /\ LET relativePath == zipFiles[fileIdx + 1].relativePath
           ls == split(replaceAll(zipFiles[fileIdx + 1].content, "\r"))
       IN /\ ~includes(relativePath, "__MACOSX/") /\ endsWith(relativePath, ".md")
          /\ Len(ls) >= 4
          /\ hasMarker(ls)
          /\ docs' = Append(docs, [uri |-> trim(ls[1]),
                                   title |-> replace(replace(trim(ls[3]), "["), "]"),
                                   text |-> trim(join(slice(ls, 4))),
                                   segments |-> <<>>])
          /\ job' = appendLog(job, <<"Processing", relativePath>>)
    /\ jobs' = updateJobLog(jobs, job.id, job'.log)
    /\ fileIdx' = fileIdx + 1
    /\ UNCHANGED <<e, raised, pc>>
    /\ archiveFrame

\* a markdown entry without its header: lines[2] or lines[3] is undefined
\* and .trim() or .startsWith() throws a TypeError, or the marker is not
\* found and the extractor throws its own error
archiveEntryThrows ==
    /\ pc = "archiveLoop"
    /\ fileIdx < Len(zipFiles)
    /\ LET relativePath == zipFiles[fileIdx + 1].relativePath
           ls == split(replaceAll(zipFiles[fileIdx + 1].content, "\r"))
       IN /\ ~includes(relativePath, "__MACOSX/") /\ endsWith(relativePath, ".md")
          /\ IF Len(ls) < 4
             THEN archiveThrow(<<"TypeError", "Cannot read properties of undefined">>)
             ELSE /\ ~hasMarker(ls)
                  /\ archiveThrow(<<"Error", "Couldn't find header marker [[]] in", relativePath>>)
    /\ UNCHANGED <<jobs, job, docs, fileIdx>>
    /\ archiveFrame

\* the loop is over: embedder.embedDocuments(documents, shouldStop, callback)
archiveEmbed ==
    /\ pc = "archiveLoop"
    /\ fileIdx = Len(zipFiles)
    /\ docs' = embedDocuments([d \in 1..Len(docs) |-> segmentsOf(docs[d])])
    /\ pc' = "archiveReturned"
    /\ UNCHANGED <<jobs, job, e, raised, fileIdx>>
    /\ archiveFrame

\* the embedding fails
archiveEmbedRaises ==
    /\ pc = "archiveLoop"
    /\ fileIdx = Len(zipFiles)
    /\ archiveThrow(<<"Error", "embed">>)
    /\ UNCHANGED <<jobs, job, docs, fileIdx>>
    /\ archiveFrame

NextArchive ==
    \/ archiveOpened \/ archiveOpenRaises
    \/ archiveEntrySkipped \/ archiveEntryRead \/ archiveEntryThrows
    \/ archiveEmbed \/ archiveEmbedRaises

SpecArchive == InitArchive /\ [][NextArchive]_vars

\* ------------------------------------------------------------------------
\* FlarumProccessor.process (processor.ts:155-222).  A user name is the
\* sequence of its letters.
\* ------------------------------------------------------------------------
\* faulty variant: the name is compared as it is written
toLowerCase_asWritten(name) == name

\* String.prototype.toLowerCase
toLowerCase(name) ==
    [k \in 1..Len(name) |->
        CASE name[k] = "A" -> "a"
          [] name[k] = "B" -> "b"
          [] name[k] = "N" -> "n"
          [] name[k] = "O" -> "o"
          [] OTHER -> name[k]]

UserNames == { <<"A", "n">>, <<"b", "o">> }
StaffLists == { <<>>, << <<"n", "a">>, <<"a", "N">> >> }
Langs == {"en", "de"}

\* the post at place p of discussion d: by one of the staff in either
\* language, or by someone else in English
PostsAt(d, p) ==
    {[userName |-> ul[1], detectedLang |-> ul[2],
      content |-> <<Piece(<<"post", d, p>>, IF p % 2 = 0 THEN 501 ELSE 3)>>]
       : ul \in {x \in UserNames \X Langs : x[1] = <<"A", "n">> \/ x[2] = "en"}}

\* the posts of discussion d when it has n of them
RECURSIVE PostsOf(_, _)
PostsOf(d, n) ==
    IF n = 0 THEN {<<>>}
    ELSE {Append(ps, post) : ps \in PostsOf(d, n - 1), post \in PostsAt(d, n)}

\* discussion d of the dump: without posts, or with up to MaxPosts of them
DiscussionsAt(d) ==
    {[discussionId |-> d, title |-> <<Piece(<<"title", d>>, 1)>>, hasPosts |-> FALSE, posts |-> <<>>]}
    \cup {[discussionId |-> d, title |-> <<Piece(<<"title", d>>, 1)>>, hasPosts |-> TRUE, posts |-> ps]
            : ps \in UNION {PostsOf(d, n) : n \in 0..MaxPosts}}

\* the dumps of n discussions
RECURSIVE Dumps(_)
Dumps(n) ==
    IF n = 0 THEN {<<>>}
    ELSE {Append(ds, discussion) : ds \in Dumps(n - 1), discussion \in DiscussionsAt(n)}

\* new Set(this.source.staff.map((staff) => staff.toLowerCase()))
staffSet(list) == {toLowerCase(list[k]) : k \in 1..Len(list)}

\* forumUrl + discussion.discussionId + "/" + postId
postUri(discussionId, id) == "d/" \o ToString(discussionId) \o "/" \o ToString(id)

InitFlarum ==
    /\ FetchIdle /\ SitemapIdle /\ MarkdownIdle /\ FaqIdle /\ LogIdle /\ DeleteIdle
    /\ ArchiveIdle
    /\ jobs = <<JobDoc("running", 1, DateNow, Unset)>>
    /\ nextId = 2 /\ runningAtStart = {}
    /\ job = [id |-> 1, log |-> <<>>]
    /\ source = [id |-> sourceId, type |-> "flarum"]
    /\ vstore = <<>> /\ docs = <<>>
    /\ ids = <<>> /\ embeddings = <<>> /\ metadatas = <<>> /\ vectorDocs = <<>>
    /\ numProcessed = 0 /\ total = 0
    /\ e = <<>> /\ consoleError = ""
    /\ upsertCall = NoCall /\ batchSizes = <<>>
    /\ raised = FALSE /\ choice = 0 /\ okRuns = <<>>
    /\ pc = "flarumFetch"
    /\ \E n \in 0..MaxDiscussions : discussions \in Dumps(n)
    /\ staff \in StaffLists
    /\ discussionIdx = 0 /\ postIdx = 0 /\ postId = 0
    /\ englishPosts = 0 /\ nonEnglishPosts = 0 /\ processed = 0

\* what the steps of the extractor leave alone
flarumFrame ==
    UNCHANGED <<nextId, source, vstore, ids, embeddings, metadatas, vectorDocs,
                numProcessed, total, consoleError, upsertCall, batchSizes,
                choice, okRuns, runningAtStart, discussions, staff,
                fetchVars, sitemapVars, markdownVars, faqVars, logVars,
                deleteVars, archiveVars>>

\* the dump is fetched and parsed; the loop starts at the first discussion
flarumFetched ==
    /\ pc = "flarumFetch"
    /\ job' = appendLog(appendLog(job, <<"Fetching Flarum dump">>), <<Len(discussions), "discussions">>)
    /\ jobs' = updateJobLog(jobs, job.id, job'.log)
    /\ discussionIdx' = 1 /\ postIdx' = 0 /\ postId' = 1
    /\ pc' = "flarumLoop"
    /\ UNCHANGED <<docs, e, raised, englishPosts, nonEnglishPosts, processed>>
    /\ flarumFrame

\* throw new Error("Could not fetch Flarum forum dump from ..")
flarumFetchRaises ==
    /\ pc = "flarumFetch"
    /\ job' = appendLog(job, <<"Fetching Flarum dump">>)
    /\ jobs' = updateJobLog(jobs, job.id, job'.log)
    /\ e' = <<"Error", "Could not fetch Flarum forum dump">>
    /\ raised' = TRUE
    /\ pc' = "flarumThrown"
    /\ UNCHANGED <<docs, discussionIdx, postIdx, postId, englishPosts, nonEnglishPosts, processed>>
    /\ flarumFrame

\* if (!discussion.posts) { this.log("No posts in discussion .."); continue; }
flarumNoPosts ==
    /\ pc = "flarumLoop"
    /\ discussionIdx <= Len(discussions)
    /\ ~discussions[discussionIdx].hasPosts
    /\ job' = appendLog(job, <<"No posts in discussion", discussions[discussionIdx].discussionId>>)
    /\ jobs' = updateJobLog(jobs, job.id, job'.log)
    /\ discussionIdx' = discussionIdx + 1 /\ postIdx' = 0 /\ postId' = 1
    /\ UNCHANGED <<docs, e, raised, pc, englishPosts, nonEnglishPosts, processed>>
    /\ flarumFrame

\* if (post.detectedLang != "en") { nonEnglishPosts++; continue; }
flarumPostNonEnglish ==
    /\ pc = "flarumLoop"
    /\ discussionIdx <= Len(discussions)
    /\ discussions[discussionIdx].hasPosts
    /\ postIdx < Len(discussions[discussionIdx].posts)
    /\ discussions[discussionIdx].posts[postIdx + 1].detectedLang # "en"
    /\ nonEnglishPosts' = nonEnglishPosts + 1
    /\ postIdx' = postIdx + 1
    /\ UNCHANGED <<jobs, job, docs, e, raised, pc, discussionIdx, postId, englishPosts, processed>>
    /\ flarumFrame

\* englishPosts++; if (staff.size > 0 && !staff.has(..)) continue;
flarumPostNotStaff ==
    /\ pc = "flarumLoop"
    /\ discussionIdx <= Len(discussions)
    /\ discussions[discussionIdx].hasPosts
    /\ postIdx < Len(discussions[discussionIdx].posts)
    /\ LET post == discussions[discussionIdx].posts[postIdx + 1]
       IN /\ post.detectedLang = "en"
          /\ Cardinality(staffSet(staff)) > 0
          /\ toLowerCase(post.userName) \notin staffSet(staff)
    /\ englishPosts' = englishPosts + 1
    /\ postIdx' = postIdx + 1
    /\ UNCHANGED <<jobs, job, docs, e, raised, pc, discussionIdx, postId, nonEnglishPosts, processed>>
    /\ flarumFrame

\* englishPosts++; the post passes the staff test: its segments are made
\* and docs.push({ title, text: "", uri: postUri, segments })
flarumPostPushed ==
    /\ pc = "flarumLoop"
    /\ discussionIdx <= Len(discussions)
    /\ discussions[discussionIdx].hasPosts
    /\ postIdx < Len(discussions[discussionIdx].posts)
    /\ LET discussion == discussions[discussionIdx]
           post == discussion.posts[postIdx + 1]
           tokenCount == tokenizeLength(post.content)
           content == discussion.title \o post.content
       IN /\ post.detectedLang = "en"
          /\ ~(Cardinality(staffSet(staff)) > 0 /\ toLowerCase(post.userName) \notin staffSet(staff))
          /\ \E chunks \in Splits(content) :
                docs' = Append(docs,
                    [title |-> discussion.title,
                     text |-> <<>>,
                     uri |-> postUri(discussion.discussionId, postId),
                     segments |-> IF tokenCount > 500
                                  THEN recursiveSplit(chunks)
                                  ELSE << [text |-> content, tokenCount |-> tokenCount,
                                           embedding |-> <<>>] >>])
    /\ englishPosts' = englishPosts + 1
    /\ postId' = postId + 1
    /\ postIdx' = postIdx + 1
    /\ UNCHANGED <<jobs, job, e, raised, pc, discussionIdx, nonEnglishPosts, processed>>
    /\ flarumFrame

\* the inner loop is over: processed++, a log line every 100 discussions
flarumDiscussionDone ==
    /\ pc = "flarumLoop"
    /\ discussionIdx <= Len(discussions)
    /\ discussions[discussionIdx].hasPosts
    /\ postIdx = Len(discussions[discussionIdx].posts)
    /\ processed' = processed + 1
    /\ job' = IF processed' % progressEvery = 0
              THEN appendLog(job, <<"Processed", processed', Len(discussions)>>)
              ELSE job
    /\ jobs' = updateJobLog(jobs, job.id, job'.log)
    /\ discussionIdx' = discussionIdx + 1 /\ postIdx' = 0 /\ postId' = 1
    /\ UNCHANGED <<docs, e, raised, pc, englishPosts, nonEnglishPosts>>
    /\ flarumFrame

\* the outer loop is over: the counts are logged, the documents are written
\* to the json file and embedded with a callback that does nothing
flarumEmbed ==
    /\ pc = "flarumLoop"
    /\ discussionIdx > Len(discussions)
    /\ job' = appendLog(appendLog(job, <<"english:", englishPosts, "non-english:", nonEnglishPosts>>),
                        <<"Writting docs to", source.id>>)
    /\ jobs' = updateJobLog(jobs, job.id, job'.log)
    /\ docs' = embedDocuments(docs)
    /\ pc' = "flarumReturned"
    /\ UNCHANGED <<e, raised, discussionIdx, postIdx, postId, englishPosts, nonEnglishPosts, processed>>
    /\ flarumFrame

\* writing the file or the embedding fails
flarumEmbedRaises ==
    /\ pc = "flarumLoop"
    /\ discussionIdx > Len(discussions)
    /\ job' = appendLog(appendLog(job, <<"english:", englishPosts, "non-english:", nonEnglishPosts>>),
                        <<"Writting docs to", source.id>>)
    /\ jobs' = updateJobLog(jobs, job.id, job'.log)
    /\ e' = <<"Error", "embed">>
    /\ raised' = TRUE
    /\ pc' = "flarumThrown"
    /\ UNCHANGED <<docs, discussionIdx, postIdx, postId, englishPosts, nonEnglishPosts, processed>>
    /\ flarumFrame

NextFlarum ==
    \/ flarumFetched \/ flarumFetchRaises
    \/ flarumNoPosts
    \/ flarumPostNonEnglish \/ flarumPostNotStaff \/ flarumPostPushed
    \/ flarumDiscussionDone
    \/ flarumEmbed \/ flarumEmbedRaises

SpecFlarum == InitFlarum /\ [][NextFlarum]_vars

\* ------------------------------------------------------------------------
\* Operators used to state the properties
\* ------------------------------------------------------------------------
\* number of segments of the documents before document d
RECURSIVE SegsBefore(_, _)
SegsBefore(ds, d) ==
    IF d <= 1 THEN 0 ELSE SegsBefore(ds, d - 1) + Len(ds[d - 1].segments)

NumSegments(ds) == SegsBefore(ds, Len(ds) + 1)

\* the document holding the g-th segment in extraction order
SegDoc(ds, g) ==
    CHOOSE d \in 1..Len(ds) :
        SegsBefore(ds, d) < g /\ g <= SegsBefore(ds, d) + Len(ds[d].segments)

RECURSIVE Sum(_)
Sum(q) == IF q = <<>> THEN 0 ELSE Head(q) + Sum(Tail(q))

CeilDiv(n, b) == (n + b - 1) \div b

RunningJobs == {j \in DOMAIN jobs : jobs[j].state = "running"}

\* the record the pipeline builds for segment s of document d
BuiltRecord(ds, d, s) ==
    [id |-> ds[d].uri \o "|" \o ToString(s - 1),
     embedding |-> ds[d].segments[s].embedding,
     metadata |-> [sourceId |-> sourceId, docUri |-> ds[d].uri,
                   docTitle |-> ds[d].title, index |-> s - 1,
                   tokenCount |-> ds[d].segments[s].tokenCount],
     document |-> ds[d].segments[s].text]

BuiltRecords(ds) ==
    UNION {{BuiltRecord(ds, d, s) : s \in 1..Len(ds[d].segments)} : d \in 1..Len(ds)}

StoredOfSource == {r \in Range(vstore) : r.metadata.sourceId = sourceId}

\* ------------------------------------------------------------------------
\* Properties
\* ------------------------------------------------------------------------
\* C1: crash recovery.  Once the startup code has run, and so before the
\* loop performs its first claim and ever after, every job that was persisted
\* as running at process start and is still in the collection is stopped.
CrashRecovery ==
    pc \notin {"boot", "exited"} =>
        \A j \in runningAtStart \cap DOMAIN jobs : jobs[j].state = "stopped"

\* C1, witness: the first job is claimed while a job that was running at
\* process start sits in the collection, recovered by the startup code
CrashRecoveryWitness ==
    /\ pc = "getSource"
    /\ okRuns = <<>>
    /\ \E j \in runningAtStart \cap DOMAIN jobs :
         jobs[j].state = "stopped" /\ jobs[j].finishedAt = DateNow

\* C2: claiming is one atomic step.  A step of getNextJob that returns a job
\* moves one waiting job with the smallest createdAt to running, sets its
\* startedAt, returns that job and changes no other job; a step that returns
\* no job changes no job and the pass of the loop processes nothing, and
\* with a waiting job in the collection this happens only when the store
\* rejected the call, which the loop reports.
ClaimAtomic ==
    [][(pc = "claim" /\ pc' # "claim") =>
          IF job' # NoJob
          THEN \E j \in DOMAIN jobs :
                 /\ jobs[j].state = "waiting"
                 /\ \A k \in DOMAIN jobs :
                       jobs[k].state = "waiting" => jobs[j].createdAt <= jobs[k].createdAt
                 /\ jobs' = [jobs EXCEPT ![j].state = "running", ![j].startedAt = DateNow]
                 /\ job'.id = j
                 /\ pc' = "getSource"
          ELSE /\ jobs' = jobs
               /\ vstore' = vstore
               /\ pc' = "sleep"
               /\ (\E j \in DOMAIN jobs : jobs[j].state = "waiting")
                     => consoleError' = "Error fetching next job"
      ]_vars

\* C2, witness: of two waiting jobs the one inserted later carries the
\* smaller createdAt and is the one claimed; the other still waits
ClaimAtomicWitness ==
    /\ pc = "getSource"
    /\ job.id = 2
    /\ DOMAIN jobs = {1, 2}
    /\ jobs[2].state = "running" /\ jobs[2].startedAt = DateNow
    /\ jobs[1].state = "waiting" /\ jobs[1].createdAt > jobs[2].createdAt

\* C3: after the startup recovery at most one job is running.  (Violated:
\* a rejected finishJob leaves the claimed job running, and the loop claims
\* the next one.)
AtMostOneRunning ==
    pc \notin {"boot", "exited"} => Cardinality(RunningJobs) <= 1

\* C4: a job's state changes only along waiting -> running and running ->
\* succeeded | failed | stopped; succeeded, failed and stopped are terminal.
\* (Violated: finishJob filters on _id alone and overwrites stopped.)
LegalTransitions ==
    [][\A j \in DOMAIN jobs \cap DOMAIN jobs' :
          jobs'[j].state # jobs[j].state =>
             \/ jobs[j].state = "waiting" /\ jobs'[j].state = "running"
             \/ jobs[j].state = "running"
                /\ jobs'[j].state \in {"succeeded", "failed", "stopped"}
      ]_vars

\* C5: a job is set to succeeded only by the scheduler, for the job it
\* holds, after the last upsert batch has completed (the arrays are drained,
\* the batches add up to every segment extracted) and with no step raised;
\* and when the try block of a claimed job completes without raising, the
\* job is succeeded with finishedAt set.
SucceededAfterLastBatch ==
    [][/\ \A j \in DOMAIN jobs \cap DOMAIN jobs' :
            (jobs[j].state # "succeeded" /\ jobs'[j].state = "succeeded") =>
               /\ pc = "finish" /\ job.id = j
               /\ ~raised /\ e = <<>>
               /\ ids = <<>> /\ embeddings = <<>> /\ metadatas = <<>> /\ vectorDocs = <<>>
               /\ total = NumSegments(docs)
               /\ numProcessed = total
               /\ Sum(batchSizes) = total
               /\ {r.id : r \in BuiltRecords(docs)} \subseteq {r.id : r \in StoredOfSource}
               /\ jobs'[j].finishedAt = DateNow
       /\ (pc = "finish" /\ pc' = "sleep" /\ Exists(job.id)) =>
            /\ jobs'[job.id].state = "succeeded"
            /\ jobs'[job.id].finishedAt = DateNow
      ]_vars

\* C5, witness: a job is succeeded, finished by this process, after a run
\* whose upsert call wrote three segments
SucceededWitness ==
    \E j \in DOMAIN jobs :
        /\ jobs[j].state = "succeeded"
        /\ jobs[j].finishedAt = DateNow
        /\ <<"Wrote", 3, 3>> \in Range(jobs[j].log)

\* C6: a raise in a step of a claimed job enters the handler; the handler
\* appends the error to the job log and, whether or not the append was
\* stored, leaves the job failed with finishedAt set.  (Violated: the
\* finishJob of the handler may be rejected as the log append was, and the
\* job stays running.)
FailedOnRaise ==
    [][/\ (raised' /\ ~raised) => (pc' = "catch" /\ e' # <<>>)
       /\ (pc = "catch" /\ pc' # "catch") =>
            /\ pc' = "finishFail"
            /\ job'.log = Append(job.log, e)
       /\ (pc = "finishFail" /\ pc' # "finishFail" /\ Exists(job.id)) =>
            /\ jobs'[job.id].state = "failed"
            /\ jobs'[job.id].finishedAt = DateNow
      ]_vars

\* C7: vector replace semantics.  When a run finishes with success, the
\* records stored for the source carry exactly the ids built by this run,
\* each stored record is one this run built, and no id is stored twice,
\* whatever earlier runs left in the collection.
ReplaceSemantics ==
    [][(pc = "finish" /\ pc' = "sleep" /\ okRuns' # okRuns) =>
          /\ {r.id : r \in StoredOfSource} = {r.id : r \in BuiltRecords(docs)}
          /\ StoredOfSource \subseteq BuiltRecords(docs)
          /\ \A k1, k2 \in 1..Len(vstore) : vstore[k1].id = vstore[k2].id => k1 = k2
          /\ vstore' = vstore
      ]_vars

\* C7, witness: two runs for the source finished with success, the first
\* over three segments of two documents, the second over one document, and
\* the collection holds the second run's records only
ReplaceWitness ==
    /\ Len(okRuns) = 2 /\ okRuns[1] = 2 /\ okRuns[2] = 3
    /\ {r.id : r \in StoredOfSource} = {"u1|0"}
    /\ \A r \in StoredOfSource : r.metadata.docTitle = "C"

\* C8: batch upsert.  While the loop runs every call made so far carried
\* batchSize records; when the loop has ended, N segments were written by
\* ceil(N / batchSize) calls, all of batchSize records but the last, which
\* carries the remainder, the sizes add up to N, and the log holds after
\* each call the cumulative count out of N.
BatchUpsert ==
    LET N == NumSegments(docs)
        k == CeilDiv(N, batchSize)
        wrote == SelectSeq(job.log, LAMBDA m : m[1] = "Wrote")
    IN /\ (pc = "upsert" /\ ~raised) =>
            /\ \A i \in 1..Len(batchSizes) : batchSizes[i] = batchSize
            /\ Len(ids) = N - Len(batchSizes) * batchSize
            /\ Len(wrote) = Len(batchSizes)
       /\ pc = "finish" =>
            /\ total = N
            /\ Len(batchSizes) = k
            /\ \A i \in 1..k :
                 batchSizes[i] = IF i < k THEN batchSize ELSE N - (k - 1) * batchSize
            /\ Sum(batchSizes) = N
            /\ Len(wrote) = k
            /\ \A i \in 1..k : wrote[i] = <<"Wrote", Min(i * batchSize, N), N>>

\* C8, witness: 4500 segments were written by calls of 2000, 2000 and 500
BatchUpsertWitness ==
    /\ pc = "finish"
    /\ total = 4500
    /\ batchSizes = <<2000, 2000, 500>>
    /\ <<"Wrote", 4500, 4500>> \in Range(job.log)

\* C9: the b-th upsert call of a run carries four arrays of one length, and
\* position i of each holds the id, embedding, metadata and text of the
\* segment at position (b - 1) * batchSize + i of the extraction order
\* (documents in order, segments in order within each document); the call
\* ends at the batch size or at the last segment.
ArraysAligned ==
    upsertCall # NoCall =>
        LET c == upsertCall
            n == Len(c.ids)
            off == (Len(batchSizes) - 1) * batchSize
        IN /\ Len(c.embeddings) = n /\ Len(c.metadatas) = n /\ Len(c.documents) = n
           /\ n = Min(batchSize, NumSegments(docs) - off)
           /\ \A i \in 1..n :
                LET d == SegDoc(docs, off + i)
                    r == BuiltRecord(docs, d, off + i - SegsBefore(docs, d))
                IN /\ c.ids[i] = r.id
                   /\ c.embeddings[i] = r.embedding
                   /\ c.metadatas[i] = r.metadata
                   /\ c.documents[i] = r.document

\* C9, witness: the second call of a run over documents of 2500, 0 and 2000
\* segments starts inside the first document and crosses into the third
ArraysAlignedWitness ==
    /\ Len(batchSizes) = 2
    /\ Len(upsertCall.ids) = 2000
    /\ upsertCall.ids[1] = "u1|2000"
    /\ upsertCall.ids[500] = "u1|2499"
    /\ upsertCall.ids[501] = "u3|0"
    /\ upsertCall.metadatas[501].docTitle = "C"
    /\ upsertCall.documents[501] = <<"C", 1>>

\* C10: the ids built in one run are pairwise distinct, and after a run that
\* finished its upserts the source has as many records stored as extraction
\* produced segments.  (Violated: two documents of one extraction result may
\* carry the same uri.)
UniqueRecordIds ==
    /\ pc \in {"upsert", "finish"} =>
          Cardinality({r.id : r \in BuiltRecords(docs)}) = NumSegments(docs)
    /\ pc = "finish" => Cardinality(StoredOfSource) = NumSegments(docs)

\* C11: fetchWithRetry makes at most 5 attempts for a url; it returns on the
\* first attempt that succeeds, so a success is the last attempt made and
\* every attempt before it failed; it throws the error carrying the url
\* when, and only when, 5 attempts in a row have failed; and a call that has
\* returned or thrown makes no further attempt.
FetchAtMostFive ==
    \A u \in DOMAIN responses :
        LET a == attempts[u] IN
        /\ Len(a) <= 5
        /\ \A i \in 1..(Len(a) - 1) : a[i] = "err"
        /\ responses[u].status \in {"pending", "returned", "thrown"}
        /\ responses[u].status = "returned" <=> (a # <<>> /\ a[Len(a)] = "ok")
        /\ responses[u].status = "thrown"
              <=> (Len(a) = 5 /\ \A i \in 1..5 : a[i] = "err")
        /\ responses[u].status = "thrown"
              => responses[u].error = "Could not fetch " \o u

\* C11, witness: of the calls of one Promise.all one has returned on its
\* third attempt and one has thrown after its fifth
FetchWitness ==
    /\ "u1" \in DOMAIN responses /\ "u2" \in DOMAIN responses
    /\ attempts["u1"] = <<"err", "err", "ok">> /\ responses["u1"].status = "returned"
    /\ attempts["u2"] = <<"err", "err", "err", "err", "err">>
    /\ responses["u2"].error = "Could not fetch u2"

\* C12: sitemap url filtering.  The urls the filter loop keeps are the urls
\* of the sitemap that match some include pattern, or any url when the
\* include list is empty, and that match no exclude pattern; they are kept
\* in sitemap order, each as often as the sitemap lists it.
FilterRule ==
    (pc \in {"sitemapBatch", "sitemapProbe", "sitemapEmbed",
             "sitemapReturned", "sitemapThrown"}
       /\ e # <<"Error", "sitemap">>) =>
        LET Keep(u) ==
                /\ included = <<>> \/ \E k \in DOMAIN included : minimatch(u, included[k])
                /\ \A k \in DOMAIN excluded : ~minimatch(u, excluded[k])
            keepIdx == {i \in DOMAIN locs : Keep(locs[i])}
            nth(j) == CHOOSE i \in keepIdx : Cardinality({k \in keepIdx : k < i}) = j - 1
        IN /\ Len(kept) = Cardinality(keepIdx)
           /\ \A j \in 1..Len(kept) : kept[j] = locs[nth(j)]

\* C12, witness: include docs/**, exclude docs/internal/** keeps docs/a of
\* docs/a, docs/internal/b, blog/c
FilterWitness ==
    /\ pc = "sitemapBatch"
    /\ locs = << <<"docs", "a">>, <<"docs", "internal", "b">>, <<"blog", "c">> >>
    /\ included = << <<"docs", "**">> >>
    /\ excluded = << <<"docs", "internal", "**">> >>
    /\ kept = << <<"docs", "a">> >>

\* C17: the sitemap extractor consumes the kept urls in order in batches of
\* 25, the last one possibly shorter; the probe has been called once for
\* every batch turned into documents before the next batch is spliced off;
\* and once the probe has reported stop no further batch is started, no
\* document is segmented or embedded and the vector collection is untouched.
BatchesAndProbes ==
    LET n == Len(batches) IN
    /\ flatMap(batches) \o urls = kept
    /\ \A i \in 1..n :
          /\ Len(batches[i]) \in 1..25
          /\ i < n => Len(batches[i]) = 25
    /\ (n > 0 /\ Len(batches[n]) < 25) => urls = <<>>
    /\ pc = "sitemapBatch" => probes = n
    /\ pc = "sitemapProbe" => probes = n - 1
    /\ pc \in {"sitemapEmbed", "sitemapReturned"} => (probes = n /\ urls = <<>>)
    /\ (pc = "sitemapThrown" /\ e = <<"Error", "Job stopped by user">>) =>
          /\ probes = n
          /\ \A d \in DOMAIN docs : docs[d].segments = <<>>
          /\ vstore = <<>>

\* C17, witness: the probe reports stop after the second batch of 25 while
\* urls are left; they are never fetched
BatchesAndProbesWitness ==
    /\ pc = "sitemapThrown" /\ e = <<"Error", "Job stopped by user">>
    /\ Len(batches) = 2 /\ Len(batches[1]) = 25 /\ Len(batches[2]) = 25
    /\ Len(urls) = 6
    /\ probes = 2

\* C13: breadcrumb rule.  A step that reads a heading line of depth d leaves
\* as breadcrumb the entries of depth below d, in their order, followed by
\* the new heading, so that the depths grow strictly from bottom to top.
BreadcrumbRule ==
    [][(pc = "mdLine" /\ lines # <<>> /\ Head(lines).txt[2] > 0 /\ lines' = Tail(lines)) =>
          /\ title' = Append(SelectSeq(title, LAMBDA h : h.txt[2] < Head(lines).txt[2]),
                             Head(lines))
          /\ \A i \in 1..(Len(title') - 1) : title'[i].txt[2] < title'[i + 1].txt[2]]_vars

\* the lines of a text that are body lines of the document
BodyOf(text) == SelectSeq(text, LAMBDA p : p.txt[1] = "body")

\* the lines of a text that are heading lines
HeadingsOf(text) == SelectSeq(text, LAMBDA p : p.txt[1] = "heading")

\* C19: flush rule.  Every non-empty buffer flushed, at a heading line or
\* after the last line, with at most 500 tokens is one segment holding the
\* buffer; a larger one is a run of segments whose bodies, in order, make up
\* the body of the buffer.  Every segment starts with the document title
\* and the breadcrumb that was open while its body lines were read and holds
\* no other heading, the flushes account for all segments, and the body
\* lines of the document are those of the segments, of the buffer and of
\* the lines still to read, in the original order.
FlushRule ==
    /\ \A i \in DOMAIN flushes :
          LET f == flushes[i] IN
          /\ f.first = IF i = 1 THEN 1 ELSE flushes[i - 1].last + 1
          /\ f.last >= f.first /\ f.last <= Len(segments)
          /\ tokenizeLength(f.buffer) <= 500 =>
                (f.last = f.first /\ segments[f.first].text = f.buffer)
          /\ flatMap([k \in 1..(f.last - f.first + 1) |->
                        BodyOf(segments[f.first + k - 1].text)]) = BodyOf(f.buffer)
          /\ \A k \in f.first..f.last :
                LET text == segments[k].text IN
                /\ HeadingsOf(text) = f.crumb
                /\ (f.crumb # <<>> \/ tokenizeLength(f.buffer) > 500) =>
                      SubSeq(text, 1, 1 + Len(f.crumb)) = <<docTitle>> \o f.crumb
                /\ \A j \in DOMAIN text : text[j].txt[1] = "body" => j > Len(HeadingsOf(text))
    /\ Len(segments) = IF flushes = <<>> THEN 0 ELSE flushes[Len(flushes)].last
    /\ flatMap([k \in 1..Len(segments) |-> BodyOf(segments[k].text)])
          \o (IF pc = "mdDone" THEN <<>> ELSE BodyOf(currText)) \o BodyOf(lines)
       = BodyOf(docText)

\* C19, witness: a buffer of two long lines under the heading of depth 1 is
\* flushed after the last line as two segments
FlushWitness ==
    /\ pc = "mdDone"
    /\ Len(docText) = 4 /\ docText[1].txt[1] = "body" /\ docText[2].txt[1] = "heading"
    /\ Len(flushes) = 2
    /\ tokenizeLength(flushes[2].buffer) > 500
    /\ flushes[2].first = 2 /\ flushes[2].last = 3

\* C14: FAQ entries.  A document the callback has segmented has at most 500
\* tokens and exactly one segment, which holds its whole text; the extractor
\* has thrown only on an entry of more than 500 tokens, which the error
\* names, and then nothing is stored; it returns only when no entry has
\* more than 500 tokens; no stored record has a tokenCount above 500.
FaqRule ==
    /\ \A d \in 1..Len(docs) :
          docs[d].segments # <<>> =>
             /\ Len(docs[d].segments) = 1
             /\ docs[d].segments[1].text = docs[d].text
             /\ docs[d].segments[1].tokenCount = tokenizeLength(docs[d].text)
             /\ tokenizeLength(docs[d].text) <= 500
    /\ pc = "faqThrown" =>
          /\ vstore = <<>>
          /\ \E d \in 1..Len(docs) :
                /\ tokenizeLength(docs[d].text) > 500
                /\ e = <<"Error", "Token count of FAQ entry", docs[d].title, "> 500, make it smaller.">>
                /\ \A k \in 1..(d - 1) : tokenizeLength(docs[k].text) <= 500
    /\ pc \in {"faqEmbed", "faqReturned", "faqStored"} =>
          \A d \in 1..Len(docs) :
             tokenizeLength(docs[d].text) <= 500 /\ Len(docs[d].segments) = 1
    /\ pc = "faqStored" => Len(vstore) = Len(docs)
    /\ \A r \in Range(vstore) : r.metadata.tokenCount <= 500

\* C14, witness: an entry of exactly 500 tokens is stored as one record
FaqWitness ==
    /\ pc = "faqStored"
    /\ \E r \in Range(vstore) : r.metadata.tokenCount = 500 /\ r.metadata.index = 0

\* C15: a failed claim.  A step in which getNextJob rejects reports the
\* error, changes no job and takes the loop to its sleep, from which it
\* claims again; and no step ends the process once the loop is running.
ClaimFailureSurvived ==
    [][/\ (pc = "claim" /\ pc' # "claim" /\ consoleError' # "") =>
            /\ consoleError' = "Error fetching next job"
            /\ jobs' = jobs
            /\ pc' = "sleep"
       /\ (pc = "sleep" /\ pc' # "sleep") => pc' \in {"claim", "exited"}
       /\ pc # "exited" => pc' # "exited"
      ]_vars

\* C16: a stop that the extractor observed ends as failed.  When the handler
\* is done with the error "Job stopped by user" for a job that is persisted
\* as stopped, the job is persisted as failed.
StoppedEndsFailed ==
    [][(/\ pc = "finishFail" /\ pc' # "finishFail"
        /\ e = <<"Error", "Job stopped by user">>
        /\ Exists(job.id) /\ jobs[job.id].state = "stopped") =>
            jobs'[job.id].state = "failed"
      ]_vars

\* s is a prefix of t
IsPrefix(s, t) == Len(s) <= Len(t) /\ SubSeq(t, 1, Len(s)) = s

\* C18: the persisted log is append-only.  Of two values the store applied
\* to the log of one job, the earlier is a prefix of the later.
AppendOnlyLog ==
    \A i \in DOMAIN written : \A k \in DOMAIN written :
        (i < k /\ written[i].jobId = written[k].jobId) =>
            IsPrefix(written[i].log, written[k].log)

\* C20: the tokenCount of every segment is the token count of its text.
TokenCountOfText ==
    \A s \in DOMAIN segments : segments[s].tokenCount = tokenizeLength(segments[s].text)

\* C25: in sitemap extraction the uri of every document is the url its
\* html was fetched from (the title and the text of a document name the
\* response they were read from).
UriIsFetchedUrl ==
    \A d \in DOMAIN docs :
        source.type = "sitemap" =>
            /\ docs[d].title = <<"title of", docs[d].uri>>
            /\ docs[d].text[2].txt = <<"content of", docs[d].uri>>

\* the phases of a run before the vector collection is fetched
EarlyPhases == {"getSource", "extract", "probe"}

\* C26, as amended: a run that raises during source lookup, extraction or
\* embedding, the sitemap extractor's "Job stopped by user" included, goes
\* to the handler and from there to the sleep, and no step of these phases
\* or of the handler changes the vector collection.
FailureLeavesStore ==
    [][/\ pc \in EarlyPhases =>
            /\ vstore' = vstore
            /\ (raised' /\ ~raised) => pc' = "catch"
       /\ pc \in {"catch", "finishFail"} =>
            /\ vstore' = vstore
            /\ pc' \in {"catch", "finishFail", "sleep"}
      ]_vars

\* C26, witness: a run over a collection that holds the records of an
\* earlier successful run has raised during extraction and reached the
\* end of its handler, the records still in place
FailureLeavesStoreWitness ==
    /\ pc = "finishFail"
    /\ e \in {<<"Error", "extract">>, <<"Error", "Job stopped by user">>}
    /\ okRuns # <<>>
    /\ vstore # <<>>

\* C26, as stated: a run whose job is persisted as stopped during source
\* lookup, extraction or embedding does not go on to the vector collection,
\* where the delete and the upserts of the run are issued: it stays in
\* these phases or goes to the handler.
CancelledLeavesStore ==
    [][(pc \in EarlyPhases /\ Exists(job.id) /\ jobs[job.id].state = "stopped") =>
          pc' \in EarlyPhases \cup {"catch"}
      ]_vars

\* C27: the probe.  The step that follows a call of the probe raises
\* "Job stopped by user" exactly when the job held is persisted as stopped
\* or is no longer in the collection; and a finish write for a job that is
\* no longer in the collection changes no job.
ProbeReportsStop ==
    [][/\ (pc = "probe" /\ pc' # "probe") =>
            ((pc' = "catch" /\ e' = <<"Error", "Job stopped by user">>)
               <=> (job.id \notin DOMAIN jobs \/ jobs[job.id].state = "stopped"))
       /\ (pc \in {"finish", "finishFail"} /\ pc' = "sleep" /\ job.id \notin DOMAIN jobs) =>
            jobs' = jobs
      ]_vars

\* C27, witness: the job held was deleted while running, the probe reported
\* stop, and the handler is about to write failed for it
ProbeReportsStopWitness ==
    /\ pc = "finishFail"
    /\ e = <<"Error", "Job stopped by user">>
    /\ job.id \notin DOMAIN jobs
    /\ jobs # <<>>

\* C28: when a pass of the loop is over and until the next job is claimed,
\* no job is running: the job the pass claimed has become succeeded,
\* failed or stopped.
ClaimedJobLeftRunning ==
    pc \in {"sleep", "claim"} => \A j \in DOMAIN jobs : jobs[j].state # "running"

\* C22: a failure inside the extractor reaches the caller: a sitemap
\* extraction that returns its documents has read the content of every url
\* it kept, so a run with an unreadable page never returns (and the job
\* never goes on to succeed).
UnreadPageFailsJob ==
    pc = "sitemapReturned" => Len(docs) = Len(kept)

\* C23: paged deletion.  With n records of the source in the collection,
\* every delete call carries between 1 and 500 ids and every call but the
\* last carries 500; what was deleted and what is left of the source add up
\* to n; the records of other sources stay as they were, in order; and when
\* the loop has ended no record of the source is left and ceil(n / 500)
\* delete calls were made.
PagedDeletion ==
    LET own(store) == SelectSeq(store, LAMBDA r : r.metadata.sourceId = sourceId)
        foreign(store) == SelectSeq(store, LAMBDA r : r.metadata.sourceId # sourceId)
        n == Len(own(deleteFrom))
    IN /\ \A k \in 1..Len(deleteCalls) :
             /\ deleteCalls[k] \in 1..limit
             /\ k < Len(deleteCalls) => deleteCalls[k] = limit
       /\ Sum(deleteCalls) + Len(own(vstore)) = n
       /\ foreign(vstore) = foreign(deleteFrom)
       /\ pc = "finish" =>
             /\ own(vstore) = <<>>
             /\ Len(deleteCalls) = CeilDiv(n, limit)

PagedDeletionWitness ==
    /\ pc = "finish"
    /\ deleteCalls = <<limit, limit, 1>>
    /\ Len(vstore) = 2 * MaxForeign
    /\ Len(deleteFrom) = 2 * limit + 1 + 2 * MaxForeign

\* the markdown entries of the archive outside __MACOSX/, by place
MarkdownEntries ==
    SelectSeq([i \in 1..Len(zipFiles) |-> i],
              LAMBDA i : /\ ~includes(zipFiles[i].relativePath, "__MACOSX/")
                         /\ endsWith(zipFiles[i].relativePath, ".md"))

LinesOf(i) == split(replaceAll(zipFiles[i].content, "\r"))

\* the entries among them without the [[..]] marker on their 4th line
LackingMarker ==
    {i \in Range(MarkdownEntries) :
        \/ Len(LinesOf(i)) < 4
        \/ ~(startsWith(LinesOf(i)[4], "[[") /\ endsWith(trim(LinesOf(i)[4]), "]]"))}

HeaderError(i) == <<"Error", "Couldn't find header marker [[]] in", zipFiles[i].relativePath>>

\* once the archive is open: with an entry lacking the marker the extractor
\* never returns, and when it has thrown no document has a segment and
\* nothing is written; when it returns there is one document per markdown
\* entry, in order, uri from line 1 and text from the lines after line 4
AllOrNothing ==
    /\ LackingMarker # {} =>
          /\ pc # "archiveReturned"
          /\ pc = "archiveThrown" =>
                /\ \A d \in DOMAIN docs : docs[d].segments = <<>>
                /\ vstore = <<>>
    /\ pc = "archiveReturned" =>
          /\ Len(docs) = Len(MarkdownEntries)
          /\ \A k \in DOMAIN docs :
                /\ docs[k].uri = trim(LinesOf(MarkdownEntries[k])[1])
                /\ docs[k].text = trim(join(slice(LinesOf(MarkdownEntries[k]), 4)))

\* C24 as stated: markdown archive extraction is all-or-nothing on the
\* header check, and the error raised over an entry lacking the marker
\* names that entry.
HeaderCheck ==
    /\ AllOrNothing
    /\ (LackingMarker # {} /\ pc = "archiveThrown" /\ e # <<"Error", "Could not find file">>) =>
          \E i \in LackingMarker : e = HeaderError(i)

\* C24, amended: all-or-nothing as above; the error is raised over the
\* first entry lacking the marker and names it when that entry has at least
\* four lines, and is a TypeError that names no entry when it has fewer.
HeaderCheckShortEntries ==
    /\ AllOrNothing
    /\ (LackingMarker # {} /\ pc = "archiveThrown" /\ e # <<"Error", "Could not find file">>) =>
          LET i == CHOOSE k \in LackingMarker : \A m \in LackingMarker : k <= m
          IN e = IF Len(LinesOf(i)) >= 4
                 THEN HeaderError(i)
                 ELSE <<"TypeError", "Cannot read properties of undefined">>

HeaderCheckWitness ==
    /\ pc = "archiveThrown"
    /\ e = <<"TypeError", "Cannot read properties of undefined">>
    /\ LackingMarker = {2}
    /\ Len(docs) = 1
    /\ job.log # <<>>

\* a letter without its case
Folded(c) ==
    CASE c \in {"A", "a"} -> "a"
      [] c \in {"B", "b"} -> "b"
      [] c \in {"N", "n"} -> "n"
      [] c \in {"O", "o"} -> "o"
      [] OTHER -> c

SameName(a, b) == Len(a) = Len(b) /\ \A k \in 1..Len(a) : Folded(a[k]) = Folded(b[k])

\* the posts that are to give a document: detected as English and, with a
\* staff list, written by one of the staff
Passing(post) ==
    /\ post.detectedLang = "en"
    /\ Len(staff) > 0 => \E k \in 1..Len(staff) : SameName(staff[k], post.userName)

\* they, in discussion order then post order, each with its discussion's title
ExpectedPosts ==
    flatMap([d \in 1..Len(discussions) |->
        LET ps == SelectSeq(discussions[d].posts, Passing)
        IN [k \in 1..Len(ps) |-> [title |-> discussions[d].title, content |-> ps[k].content]]])

PostsOfDump == flatMap([d \in 1..Len(discussions) |-> discussions[d].posts])

\* C21: the Flarum extractor returns exactly one document per post that is
\* detected as English and, with a non-empty staff list, written by a
\* member of it whatever the case of the letters, in discussion order then
\* post order; and the two counts it logs are the numbers of English and
\* of other posts, together the number of posts of the dump.
FlarumRule ==
    pc = "flarumReturned" =>
        /\ Len(docs) = Len(ExpectedPosts)
        /\ \A k \in DOMAIN docs :
              /\ docs[k].title = ExpectedPosts[k].title
              /\ flatMap([s \in 1..Len(docs[k].segments) |-> docs[k].segments[s].text])
                    = ExpectedPosts[k].title \o ExpectedPosts[k].content
        /\ job.log[Len(job.log) - 1] = <<"english:", englishPosts, "non-english:", nonEnglishPosts>>
        /\ englishPosts = Len(SelectSeq(PostsOfDump, LAMBDA post : post.detectedLang = "en"))
        /\ englishPosts + nonEnglishPosts = Len(PostsOfDump)

FlarumWitness ==
    /\ pc = "flarumReturned"
    /\ Len(staff) > 0
    /\ Len(docs) = 1
    /\ englishPosts = 2
    /\ nonEnglishPosts = 1
    /\ \E d \in DOMAIN discussions : discussions[d].posts[1].userName = <<"A", "n">>

====
